---- MODULE Spec2Model ----
(***************************************************************************)
(* A model of the portfolio backend: the contact form view                 *)
(* (core/views.py), the PortfolioSettings singleton, the validated Skill,  *)
(* ProjectCategory and Project models, the Experience model                *)
(* (core/models.py), the listings served by the home view and the skills  *)
(* and projects APIs (core/views.py) with their cache, the error handler   *)
(* (core/middleware/error_handler.py) and the populate_portfolio command   *)
(* (core/management/commands/populate_portfolio.py).                       *)
(*                                                                         *)
(* Text is a sequence of one-character strings, so that str.strip() and    *)
(* the "in" tests of the view are computed on the characters.  Each        *)
(* component has its own specification (SpecContact, FairContact,          *)
(* SpecSettings, SpecSkill, SpecProject, SpecExperience, SpecNames,        *)
(* SpecEdits, SpecCatalog, SpecSkillList, SpecProjectList, SpecPaging,     *)
(* SpecProjectFilter, SpecEmbed, SpecPages, SpecFailure, SpecCache,        *)
(* SpecCallers, SpecSeed, SpecReseed, SpecRuns); Spec is the composition   *)
(* of the stores.                                                          *)
(***************************************************************************)
EXTENDS Integers, Sequences, FiniteSets, TLC

VARIABLES
    req,          \* the HTTP request sent to the contact endpoint
    pc,           \* position of contact_form: idle, send_mail, after_mail, done
    response,     \* the response returned to the caller (status 0: none yet)
    messages,     \* the ContactMessage table, in insertion order
    mailCalls,    \* ids of the messages send_mail was called for, in order
    mailOutcome,  \* none, ok or error: how the current send_mail call ended
    settingsRows, \* the PortfolioSettings table
    settingsOp,   \* the last PortfolioSettings operation and what it returned
    skills,       \* the Skill table
    skillOp,      \* the last Skill operation and its outcome
    projects,     \* the Project table
    projectOp,    \* the last Project operation and its outcome
    experiences,  \* the Experience table
    experienceOp, \* the last Experience operation and its outcome
    categories,   \* the ProjectCategory table
    categoryOp,   \* the last ProjectCategory operation and its outcome
    listing,      \* the last listing served and the request it answered
    cache,        \* the cache backend: an entry for each key the views use
    clock,        \* the time, in units of the cache timeouts
    callers,      \* the get_settings() calls in progress, one for each caller
    seedOp,       \* the last run of the populate_portfolio command and its outcome
    txns          \* the populate_portfolio runs in progress, one transaction each

contactVars == <<req, pc, response, messages, mailCalls, mailOutcome>>
settingsVars == <<settingsRows, settingsOp>>
skillVars == <<skills, skillOp>>
projectVars == <<projects, projectOp>>
experienceVars == <<experiences, experienceOp>>
categoryVars == <<categories, categoryOp>>
listingVars == <<listing>>
cacheVars == <<cache, clock>>
runVars == <<callers, seedOp, txns>>
vars == <<req, pc, response, messages, mailCalls, mailOutcome,
          settingsRows, settingsOp, skills, skillOp, projects, projectOp,
          experiences, experienceOp, categories, categoryOp, listing,
          cache, clock, callers, seedOp, txns>>

----------------------------------------------------------------------------
(* Bounds *)

\* longest email text submitted
MaxEmailLen == 3
\* how many times the client submits its request
MaxSubmissions == 2
\* largest id a table that rows are deleted from hands out
MaxId == 3
\* settings.PAGINATION_PAGE_SIZE, the page size of a request that names none
DefaultPageSize == 2

----------------------------------------------------------------------------
(* Text *)

RECURSIVE SeqsUpTo(_, _)
SeqsUpTo(S, n) ==
    IF n = 0 THEN {<<>>}
    ELSE LET shorter == SeqsUpTo(S, n - 1)
         IN  shorter \cup {Append(s, c) : s \in {t \in shorter : Len(t) = n - 1}, c \in S}

IsSpace(c) == c = " "

RECURSIVE LStrip(_)
LStrip(s) == IF s # <<>> /\ IsSpace(Head(s)) THEN LStrip(Tail(s)) ELSE s

RECURSIVE RStrip(_)
RStrip(s) ==
    IF s # <<>> /\ IsSpace(s[Len(s)]) THEN RStrip(SubSeq(s, 1, Len(s) - 1)) ELSE s

\* str.strip(): leading and trailing whitespace removed
Strip(s) == RStrip(LStrip(s))

\* c in s
Contains(s, c) == \E i \in 1..Len(s) : s[i] = c

EmailChars == {" ", "a", "@", "."}
EmailTexts == SeqsUpTo(EmailChars, MaxEmailLen)
\* empty, blank, plain and padded text for name, subject and message
PlainTexts == {<<>>, <<" ">>, <<"a">>, <<" ", "a", " ">>}

----------------------------------------------------------------------------
(* The contact request *)

\* A value of the JSON object: absent key, a string, or any other JSON value
Absent == [t |-> "absent", v |-> <<>>]
NonString == [t |-> "other", v |-> <<>>]
Str(s) == [t |-> "str", v |-> s]

FieldValues(texts) == {Absent, NonString} \cup {Str(s) : s \in texts}

NoFields == [name |-> Absent, email |-> Absent, subject |-> Absent, message |-> Absent]

\* The body: not JSON at all, JSON that is no object, or a JSON object
Bodies ==
    {[kind |-> k, fields |-> NoFields] : k \in {"invalid_json", "non_object"}}
    \cup
    {[kind |-> "object",
      fields |-> [name |-> n, email |-> e, subject |-> s, message |-> m]] :
        n \in FieldValues(PlainTexts), e \in FieldValues(EmailTexts),
        s \in FieldValues(PlainTexts), m \in FieldValues(PlainTexts)}

Requests == {[method |-> mt, body |-> b] : mt \in {"GET", "PUT", "POST"}, b \in Bodies}

----------------------------------------------------------------------------
(* contact_form *)

NoResponse == [status |-> 0, success |-> FALSE, message |-> "none"]
MethodNotAllowed == [status |-> 405, success |-> FALSE, message |-> "method_not_allowed"]
FieldsRequired == [status |-> 400, success |-> FALSE, message |-> "campos_obligatorios"]
InvalidEmail == [status |-> 400, success |-> FALSE, message |-> "email_no_valido"]
InvalidData == [status |-> 400, success |-> FALSE, message |-> "datos_invalidos"]
InternalError == [status |-> 500, success |-> FALSE, message |-> "error_al_enviar"]
Sent == [status |-> 200, success |-> TRUE, message |-> "mensaje_enviado"]

\* data.get(key, ""): the value of the key, "" when the key is absent
Get(fields, key) == IF fields[key].t = "absent" THEN Str(<<>>) ELSE fields[key]

\* the four .strip() calls raise AttributeError on a value that is no string
AllStrings(fields) ==
    \A k \in {"name", "email", "subject", "message"} : Get(fields, k).t = "str"

\* the fields as sent, not stripped
TrimmedRaw(fields) ==
    [k \in {"name", "email", "subject", "message"} |-> Get(fields, k).v]

\* name, email, subject, message_text: each data.get(key, "").strip()
Trimmed(fields) ==
    [k \in {"name", "email", "subject", "message"} |-> Strip(Get(fields, k).v)]

\* all([name, email, subject, message_text])
AllPresent(t) == \A k \in DOMAIN t : t[k] # <<>>

\* an email with only one of the two characters passes
EmailOkEither(email) == Contains(email, "@") \/ Contains(email, ".")

\* not ("@" not in email or "." not in email)
EmailOk(email) == Contains(email, "@") /\ Contains(email, ".")

\* ContactMessage.objects.create(name=, email=, subject=, message=)
NewMessage(id, t) ==
    [id |-> id, name |-> t.name, email |-> t.email, subject |-> t.subject,
     message |-> t.message, is_read |-> FALSE]

\* the view body runs whatever the method is
ValidateAnyMethod(r) ==
    IF r.body.kind = "invalid_json" THEN [resp |-> InvalidData, persist |-> FALSE]
    ELSE IF r.body.kind # "object" THEN [resp |-> InternalError, persist |-> FALSE]
    ELSE IF ~AllStrings(r.body.fields) THEN [resp |-> InternalError, persist |-> FALSE]
    ELSE IF ~AllPresent(Trimmed(r.body.fields))
         THEN [resp |-> FieldsRequired, persist |-> FALSE]
    ELSE IF ~EmailOk(Trimmed(r.body.fields).email)
         THEN [resp |-> InvalidEmail, persist |-> FALSE]
    ELSE [resp |-> NoResponse, persist |-> TRUE]

\* What contact_form does with a request up to its send_mail call: the response it
\* returns at once (NoResponse when it goes on to send_mail) and whether it
\* persists a message.
Validate(r) ==
    IF r.method # "POST" THEN [resp |-> MethodNotAllowed, persist |-> FALSE]
    ELSE IF r.body.kind = "invalid_json" THEN [resp |-> InvalidData, persist |-> FALSE]
    ELSE IF r.body.kind # "object" THEN [resp |-> InternalError, persist |-> FALSE]
    ELSE IF ~AllStrings(r.body.fields) THEN [resp |-> InternalError, persist |-> FALSE]
    ELSE IF ~AllPresent(Trimmed(r.body.fields))
         THEN [resp |-> FieldsRequired, persist |-> FALSE]
    ELSE IF ~EmailOk(Trimmed(r.body.fields).email)
         THEN [resp |-> InvalidEmail, persist |-> FALSE]
    ELSE [resp |-> NoResponse, persist |-> TRUE]

\* send_mail is called for the message again after the first call
DispatchTwice(calls, id) == Append(Append(calls, id), id)

\* the one send_mail call of contact_form, for the message just created
Dispatch(calls, id) == Append(calls, id)

InitContact ==
    /\ req \in Requests
    /\ pc = "idle"
    /\ response = NoResponse
    /\ messages = <<>>
    /\ mailCalls = <<>>
    /\ mailOutcome = "none"

\* contact_form from its entry to its first return or to the send_mail call
ContactReceive ==
    /\ pc = "idle"
    /\ LET v == Validate(req)
           id == Len(messages) + 1
       IN  IF v.persist
           THEN /\ messages' = Append(messages, NewMessage(id, Trimmed(req.body.fields)))
                /\ mailCalls' = Dispatch(mailCalls, id)
                /\ pc' = "send_mail"
                /\ response' = NoResponse
           ELSE /\ messages' = messages
                /\ mailCalls' = mailCalls
                /\ pc' = "done"
                /\ response' = v.resp
    /\ mailOutcome' = "none"
    /\ UNCHANGED <<req, settingsVars, skillVars, projectVars,
                   experienceVars, categoryVars, listingVars,
                   cacheVars, runVars>>

\* send_mail returns: the mail backend accepted the message
MailDeliver ==
    /\ pc = "send_mail"
    /\ mailOutcome' = "ok"
    /\ pc' = "after_mail"
    /\ UNCHANGED <<req, response, messages, mailCalls, settingsVars, skillVars, projectVars,
                   experienceVars, categoryVars, listingVars,
                   cacheVars, runVars>>

\* send_mail raises: the except clause logs the error and falls through
MailFail ==
    /\ pc = "send_mail"
    /\ mailOutcome' = "error"
    /\ pc' = "after_mail"
    /\ UNCHANGED <<req, response, messages, mailCalls, settingsVars, skillVars, projectVars,
                   experienceVars, categoryVars, listingVars,
                   cacheVars, runVars>>

\* the error of send_mail reaches the outer except clause
AfterMailPropagates(outcome) == IF outcome = "error" THEN InternalError ELSE Sent

\* the response contact_form returns once send_mail has returned or raised: the
\* inner except clause swallows the error
AfterMail(outcome) == Sent

\* contact_form returns after the send_mail try block
ContactRespond ==
    /\ pc = "after_mail"
    /\ response' = AfterMail(mailOutcome)
    /\ pc' = "done"
    /\ UNCHANGED <<req, messages, mailCalls, mailOutcome, settingsVars, skillVars, projectVars,
                   experienceVars, categoryVars, listingVars,
                   cacheVars, runVars>>

\* the client sends its request again
Resubmit ==
    /\ pc = "done"
    /\ Len(messages) < MaxSubmissions
    /\ pc' = "idle"
    /\ response' = NoResponse
    /\ mailOutcome' = "none"
    /\ UNCHANGED <<req, messages, mailCalls, settingsVars, skillVars, projectVars,
                   experienceVars, categoryVars, listingVars,
                   cacheVars, runVars>>

NextContact ==
    \/ ContactReceive
    \/ MailDeliver
    \/ MailFail
    \/ ContactRespond
    \/ Resubmit

----------------------------------------------------------------------------
(* PortfolioSettings *)

\* an unsaved instance has pk None
NoPk == 0
SingletonPk == 1

DefaultTitle == "Argenis Manzanares"
DefaultUser == "Kallheset"
SiteTitles == {DefaultTitle, "Test Portfolio", "Portfolio"}
GithubUsers == {DefaultUser, "testuser", "octocat"}

\* PortfolioSettings(**kwargs): an instance not yet saved
NewSettings(title, user) == [pk |-> NoPk, site_title |-> title, github_username |-> user]

Max(S) == CHOOSE x \in S : \A y \in S : y <= x
NextPk(rows) == IF rows = {} THEN 1 ELSE Max({r.pk : r \in rows}) + 1

\* django Model.save(): INSERT under force_insert or without a pk (the database
\* assigns the next one), else UPDATE the row of that pk, INSERT when there is none.
\* A second row with a pk in use violates the primary key: IntegrityError.
ModelSave(rows, inst, force_insert) ==
    LET obj == IF inst.pk = NoPk THEN [inst EXCEPT !.pk = NextPk(rows)] ELSE inst
        same == {r \in rows : r.pk = obj.pk}
    IN  IF same # {} /\ force_insert
        THEN [rows |-> rows, obj |-> inst, error |-> "IntegrityError"]
        ELSE [rows |-> (rows \ same) \cup {obj}, obj |-> obj, error |-> "none"]

\* save() without the pk assignment
SettingsSaveKeepsPk(rows, inst, force_insert) == ModelSave(rows, inst, force_insert)

\* PortfolioSettings.save(): self.pk = 1; super().save(); return self
SettingsSave(rows, inst, force_insert) ==
    ModelSave(rows, [inst EXCEPT !.pk = SingletonPk], force_insert)

\* objects.create(**kwargs): obj = PortfolioSettings(**kwargs); obj.save(force_insert=True)
SettingsObjectsCreate(rows, title, user) ==
    SettingsSave(rows, NewSettings(title, user), TRUE)

\* update_or_create in place of get_or_create: the row is reset to the defaults
GetOrCreateResets(rows) ==
    SettingsSave(rows, NewSettings(DefaultTitle, DefaultUser), FALSE)

\* get_settings(): objects.get_or_create(pk=1), the row when it exists, else a row
\* created with the field defaults
GetOrCreateSettings(rows) ==
    LET found == {r \in rows : r.pk = SingletonPk}
    IN  IF found # {}
        THEN [rows |-> rows, obj |-> CHOOSE r \in found : TRUE, error |-> "none"]
        ELSE SettingsSave(rows, [NewSettings(DefaultTitle, DefaultUser)
                                    EXCEPT !.pk = SingletonPk], TRUE)

NoSettingsOp ==
    [op |-> "none", arg |-> NewSettings(DefaultTitle, DefaultUser),
     ret |-> NewSettings(DefaultTitle, DefaultUser), error |-> "none"]

InitSettings ==
    /\ settingsRows = {}
    /\ settingsOp = NoSettingsOp

SettingsApply(op, arg, result) ==
    /\ settingsRows' = result.rows
    /\ settingsOp' = [op |-> op, arg |-> arg, ret |-> result.obj, error |-> result.error]
    /\ UNCHANGED <<contactVars, skillVars, projectVars,
                   experienceVars, categoryVars, listingVars,
                   cacheVars, runVars>>

\* PortfolioSettings.get_settings()
GetSettings ==
    SettingsApply("get_settings", NewSettings(DefaultTitle, DefaultUser),
                  GetOrCreateSettings(settingsRows))

\* PortfolioSettings(site_title=, github_username=).save() on a new instance
SaveNewSettings ==
    \E t \in SiteTitles, u \in GithubUsers :
        SettingsApply("save_new", NewSettings(t, u),
                      SettingsSave(settingsRows, NewSettings(t, u), FALSE))

\* PortfolioSettings.objects.create(site_title=, github_username=)
CreateSettings ==
    \E t \in SiteTitles, u \in GithubUsers :
        SettingsApply("create", NewSettings(t, u),
                      SettingsObjectsCreate(settingsRows, t, u))

\* the stored row is loaded, edited and saved (the admin change form)
EditSettings ==
    \E r \in settingsRows, t \in SiteTitles, u \in GithubUsers :
        LET inst == [r EXCEPT !.site_title = t, !.github_username = u]
        IN  SettingsApply("edit", inst, SettingsSave(settingsRows, inst, FALSE))

NextSettings ==
    \/ GetSettings
    \/ SaveNewSettings
    \/ CreateSettings
    \/ EditSettings

----------------------------------------------------------------------------
(* Optional values: None is the empty sequence, a value x is <<x>> *)

None == <<>>
Some(x) == <<x>>
IsSet(o) == o # <<>>
Val(o) == o[1]

\* the next value of a table's id column
NextId(rows) == IF rows = {} THEN 1 ELSE Max({r.id : r \in rows}) + 1

----------------------------------------------------------------------------
(* Skill *)

MinProficiency == 1
MaxProficiency == 4
MaxYearsExperience == 50

SkillNames == {"Django", "Python"}
ProficiencyInputs ==
    {MinProficiency - 1, MinProficiency, MaxProficiency, MaxProficiency + 1}
YearsInputs ==
    {None, Some(0 - 1), Some(0), Some(MaxYearsExperience), Some(MaxYearsExperience + 1)}

\* CATEGORY_CHOICES
SkillCategories == {"language", "framework", "database", "tool", "cloud"}

\* Skill(name=, proficiency_level=, years_experience=): an instance not yet saved;
\* category, is_featured and display_order take their defaults
NewSkill(name, level, years) ==
    [id |-> NoPk, name |-> name, proficiency_level |-> level, years_experience |-> years,
     category |-> "tool", is_featured |-> TRUE, display_order |-> 0]

\* clean_fields(): MinValueValidator(1), MaxValueValidator(4) and the choices of
\* proficiency_level, the choices of category
SkillCleanFields(inst) ==
    /\ inst.proficiency_level >= MinProficiency
    /\ inst.proficiency_level <= MaxProficiency
    /\ inst.proficiency_level \in {1, 2, 3, 4}
    /\ inst.category \in SkillCategories

\* clean() without the limit
SkillCleanNoLimit(inst) == TRUE

\* clean(): if self.years_experience and self.years_experience > 50: raise.
\* None and 0 are falsy.
SkillClean(inst) ==
    ~(/\ IsSet(inst.years_experience)
      /\ Val(inst.years_experience) # 0
      /\ Val(inst.years_experience) > MaxYearsExperience)

\* validate_unique(): no other row holds the name
SkillValidateUnique(rows, inst) ==
    \A r \in rows : r.name = inst.name => r.id = inst.id

\* Meta.constraints: valid_proficiency_level and valid_years_experience
SkillConstraints(inst) ==
    /\ inst.proficiency_level >= 1 /\ inst.proficiency_level <= 4
    /\ (~IsSet(inst.years_experience) \/ Val(inst.years_experience) >= 0)

\* save() without the full_clean() call
SkillFullCleanSkipped(rows, inst) == TRUE

\* full_clean(): clean_fields, clean, validate_unique, validate_constraints
SkillFullClean(rows, inst) ==
    /\ SkillCleanFields(inst)
    /\ SkillClean(inst)
    /\ SkillValidateUnique(rows, inst)
    /\ SkillConstraints(inst)

\* the INSERT or UPDATE of Model.save(): the database checks the unique name and
\* the table's check constraints
SkillWrite(rows, inst) ==
    LET obj == IF inst.id = NoPk THEN [inst EXCEPT !.id = NextId(rows)] ELSE inst
    IN  IF SkillValidateUnique(rows, inst) /\ SkillConstraints(inst)
        THEN [rows |-> {r \in rows : r.id # obj.id} \cup {obj}, error |-> "none"]
        ELSE [rows |-> rows, error |-> "IntegrityError"]

\* Skill.save(): self.full_clean(); super().save()
SkillSave(rows, inst) ==
    IF SkillFullClean(rows, inst)
    THEN SkillWrite(rows, inst)
    ELSE [rows |-> rows, error |-> "ValidationError"]

NoSkillOp == [op |-> "none", arg |-> NewSkill("Django", 3, None), error |-> "none"]

InitSkill ==
    /\ skills = {}
    /\ skillOp = NoSkillOp

SkillApply(op, inst) ==
    LET result == SkillSave(skills, inst)
    IN  /\ skills' = result.rows
        /\ skillOp' = [op |-> op, arg |-> inst, error |-> result.error]
        /\ UNCHANGED <<contactVars, settingsVars, projectVars,
                   experienceVars, categoryVars, listingVars,
                   cacheVars, runVars>>

\* Skill.objects.create(name=, proficiency_level=, years_experience=)
SkillCreate ==
    \E n \in SkillNames, l \in ProficiencyInputs, y \in YearsInputs :
        SkillApply("create", NewSkill(n, l, y))

\* a stored Skill is loaded, its fields are set and it is saved
SkillUpdate ==
    \E r \in skills, n \in SkillNames, l \in ProficiencyInputs, y \in YearsInputs :
        SkillApply("update",
                   [r EXCEPT !.name = n, !.proficiency_level = l, !.years_experience = y])

\* Skill.objects.create(name=): the other fields take their defaults
SkillAdd ==
    /\ NextId(skills) <= MaxId
    /\ \E n \in SkillNames : SkillApply("create", NewSkill(n, 3, None))

\* a stored Skill is renamed and saved
SkillRename ==
    \E r \in skills, n \in SkillNames : SkillApply("update", [r EXCEPT !.name = n])

\* the rows of the technologies link table go with the Skill they point to
Unlink(rows, skill) == {[p EXCEPT !.technologies = @ \ {skill.id}] : p \in rows}

\* a stored Skill is deleted
SkillDelete ==
    \E r \in skills :
        /\ skills' = skills \ {r}
        /\ skillOp' = [op |-> "delete", arg |-> r, error |-> "none"]
        /\ projects' = Unlink(projects, r)
        /\ UNCHANGED <<contactVars, settingsVars, projectOp,
                       experienceVars, categoryVars, listingVars,
                   cacheVars, runVars>>

\* the proficiency_level of a stored Skill is set and the Skill is saved
SkillSetLevel ==
    \E r \in skills, l \in ProficiencyInputs :
        SkillApply("update", [r EXCEPT !.proficiency_level = l])

SkillCategoryInputs == {"language", "tool", "mobile"}

\* the category of a stored Skill is set and the Skill is saved
SkillSetCategory ==
    \E r \in skills, c \in SkillCategoryInputs :
        SkillApply("update", [r EXCEPT !.category = c])

NextSkill ==
    \/ SkillCreate
    \/ SkillUpdate

----------------------------------------------------------------------------
(* Project *)

\* most Project rows stored
MaxProjects == 2
\* dates are day numbers 1..MaxDate
MaxDate == 2

DateInputs == {None} \cup {Some(d) : d \in 1..MaxDate}

\* STATUS_CHOICES
ProjectStatuses == {"active", "completed", "archived", "in_progress"}

\* Project(title=, start_date=, end_date=): an instance not yet saved; category,
\* status, is_featured and display_order take their defaults, technologies is the
\* set of Skill ids the project is linked to, created_at is set by the first save
NewProject(start, end) ==
    [id |-> NoPk, title |-> "Portfolio Web", start_date |-> start, end_date |-> end,
     category |-> None, technologies |-> {}, status |-> "completed",
     is_featured |-> TRUE, display_order |-> 0, created_at |-> 0]

\* clean_fields(): the choices of status; the category, when set, is a stored
\* ProjectCategory
ProjectCleanFields(inst) ==
    /\ inst.status \in ProjectStatuses
    /\ IsSet(inst.category) => \E c \in categories : c.id = Val(inst.category)

\* clean(): if self.end_date and self.start_date and self.end_date < self.start_date: raise
ProjectClean(inst) ==
    ~(/\ IsSet(inst.end_date)
      /\ IsSet(inst.start_date)
      /\ Val(inst.end_date) < Val(inst.start_date))

\* Meta.constraints: valid_project_dates
ProjectConstraints(inst) ==
    \/ ~IsSet(inst.start_date)
    \/ ~IsSet(inst.end_date)
    \/ Val(inst.end_date) >= Val(inst.start_date)

\* save() without the full_clean() call
ProjectFullCleanSkipped(inst) == TRUE

\* full_clean(): clean_fields, clean and validate_constraints (title is not unique)
ProjectFullClean(inst) ==
    /\ ProjectCleanFields(inst)
    /\ ProjectClean(inst)
    /\ ProjectConstraints(inst)

\* auto_now_add: the time of the INSERT, later than that of every stored row
Now(rows) == IF rows = {} THEN 1 ELSE Max({r.created_at : r \in rows}) + 1

\* the INSERT or UPDATE of Model.save(): the database checks valid_project_dates
ProjectWrite(rows, inst) ==
    LET obj == IF inst.id = NoPk
               THEN [inst EXCEPT !.id = NextId(rows), !.created_at = Now(rows)]
               ELSE inst
    IN  IF ProjectConstraints(inst)
        THEN [rows |-> {r \in rows : r.id # obj.id} \cup {obj}, error |-> "none"]
        ELSE [rows |-> rows, error |-> "IntegrityError"]

\* Project.save(): self.full_clean(); super().save()
ProjectSave(rows, inst) ==
    IF ProjectFullClean(inst)
    THEN ProjectWrite(rows, inst)
    ELSE [rows |-> rows, error |-> "ValidationError"]

NoProjectOp == [op |-> "none", arg |-> NewProject(None, None), error |-> "none"]

InitProject ==
    /\ projects = {}
    /\ projectOp = NoProjectOp

ProjectApply(op, inst) ==
    LET result == ProjectSave(projects, inst)
    IN  /\ projects' = result.rows
        /\ projectOp' = [op |-> op, arg |-> inst, error |-> result.error]
        /\ UNCHANGED <<contactVars, settingsVars, skillVars,
                       experienceVars, categoryVars, listingVars,
                   cacheVars, runVars>>

\* Project.objects.create(title=, start_date=, end_date=)
ProjectCreate ==
    /\ Cardinality(projects) < MaxProjects
    /\ \E s \in DateInputs, e \in DateInputs : ProjectApply("create", NewProject(s, e))

\* a stored Project is loaded, its dates are set and it is saved
ProjectUpdate ==
    \E r \in projects, s \in DateInputs, e \in DateInputs :
        ProjectApply("update", [r EXCEPT !.start_date = s, !.end_date = e])

\* the default status and a value outside STATUS_CHOICES
StatusInputs == {"completed", "done"}

\* the status of a stored Project is set and the Project is saved
ProjectSetStatus ==
    \E r \in projects, st \in StatusInputs :
        ProjectApply("update", [r EXCEPT !.status = st])

NextProject ==
    \/ ProjectCreate
    \/ ProjectUpdate

----------------------------------------------------------------------------
(* ProjectCategory *)

ColorMaxLength == 7
HexDigits ==
    {"0", "1", "2", "3", "4", "5", "6", "7", "8", "9",
     "A", "B", "C", "D", "E", "F", "a", "b", "c", "d", "e", "f"}

DefaultColor == <<"#", "3", "B", "8", "2", "F", "6">>
ColorInputs ==
    {DefaultColor,
     <<"#", "f", "f", "0", "0", "a", "9">>,
     <<"#", "3", "B", "8", "2", "F">>,
     <<"#", "3", "B", "8", "2", "F", "G">>,
     <<"3", "B", "8", "2", "F", "6", "#">>,
     Append(DefaultColor, "\n")}

CategoryNames == {<<"W", "e", "b">>, <<"A", "P", "I">>}

\* ProjectCategory(name=, color=): an instance not yet saved
NewCategory(name, color) == [id |-> NoPk, name |-> name, color |-> color]

\* "#" and six hex digits
IsHexColor(s) ==
    /\ Len(s) = 7
    /\ s[1] = "#"
    /\ \A i \in 2..7 : s[i] \in HexDigits

\* RegexValidator(r'^#[0-9A-Fa-f]{6}$'): "$" matches at the end of the text and
\* before a newline that ends it
MatchesColorRegex(s) ==
    \/ IsHexColor(s)
    \/ /\ s # <<>>
       /\ s[Len(s)] = "\n"
       /\ IsHexColor(SubSeq(s, 1, Len(s) - 1))

\* clean_fields(): max_length=7 and the RegexValidator of color
CategoryCleanFields(inst) ==
    /\ Len(inst.color) <= ColorMaxLength
    /\ MatchesColorRegex(inst.color)

\* the unique name is not checked
CategoryNameNotChecked(rows, inst) == TRUE

\* validate_unique(): no other row holds the name
CategoryValidateUnique(rows, inst) ==
    \A r \in rows : r.name = inst.name => r.id = inst.id

\* save() without the full_clean() call
CategoryFullCleanSkipped(rows, inst) == TRUE

\* full_clean(): clean_fields and validate_unique (clean() adds nothing)
CategoryFullClean(rows, inst) ==
    /\ CategoryCleanFields(inst)
    /\ CategoryValidateUnique(rows, inst)

\* the INSERT or UPDATE of Model.save(): the database checks the unique name
CategoryWrite(rows, inst) ==
    LET obj == IF inst.id = NoPk THEN [inst EXCEPT !.id = NextId(rows)] ELSE inst
    IN  IF CategoryValidateUnique(rows, inst)
        THEN [rows |-> {r \in rows : r.id # obj.id} \cup {obj}, error |-> "none"]
        ELSE [rows |-> rows, error |-> "IntegrityError"]

\* ProjectCategory.save(): self.full_clean(); super().save()
CategorySave(rows, inst) ==
    IF CategoryFullClean(rows, inst)
    THEN CategoryWrite(rows, inst)
    ELSE [rows |-> rows, error |-> "ValidationError"]

NoCategoryOp ==
    [op |-> "none", arg |-> NewCategory(<<"W", "e", "b">>, DefaultColor), error |-> "none"]

InitCategory ==
    /\ categories = {}
    /\ categoryOp = NoCategoryOp

CategoryApply(op, inst) ==
    LET result == CategorySave(categories, inst)
    IN  /\ categories' = result.rows
        /\ categoryOp' = [op |-> op, arg |-> inst, error |-> result.error]
        /\ UNCHANGED <<contactVars, settingsVars, skillVars, projectVars,
                       experienceVars, listingVars,
                   cacheVars, runVars>>

\* ProjectCategory.objects.create(name=, color=)
CategoryCreate ==
    /\ NextId(categories) <= MaxId
    /\ \E n \in CategoryNames, c \in ColorInputs :
          CategoryApply("create", NewCategory(n, c))

\* a stored ProjectCategory is loaded, its name and color are set and it is saved
CategoryUpdate ==
    \E r \in categories, n \in CategoryNames, c \in ColorInputs :
        CategoryApply("update", [r EXCEPT !.name = n, !.color = c])

\* ProjectCategory.objects.create(name=): the color takes its default
CategoryAdd ==
    /\ NextId(categories) <= MaxId
    /\ \E n \in CategoryNames : CategoryApply("create", NewCategory(n, DefaultColor))

\* a stored ProjectCategory is renamed and saved
CategoryRename ==
    \E r \in categories, n \in CategoryNames :
        CategoryApply("update", [r EXCEPT !.name = n])

\* on_delete=CASCADE: the rows that referenced the category are deleted with it
Cascade(rows, c) == {p \in rows : p.category # Some(c.id)}

\* on_delete=SET_NULL: the rows that referenced the category, updated by delete()
SetNull(rows, c) ==
    {IF p.category = Some(c.id) THEN [p EXCEPT !.category = None] ELSE p : p \in rows}

\* a stored ProjectCategory is deleted
CategoryDelete ==
    \E r \in categories :
        /\ categories' = categories \ {r}
        /\ categoryOp' = [op |-> "delete", arg |-> r, error |-> "none"]
        /\ projects' = SetNull(projects, r)
        /\ UNCHANGED <<contactVars, settingsVars, skillVars, projectOp,
                       experienceVars, listingVars,
                   cacheVars, runVars>>

\* Project.objects.create(title=, category=) followed by technologies.set(): the
\* category is none or a stored one, the technologies are none or every stored Skill
ProjectAdd ==
    /\ Cardinality(projects) < MaxProjects
    /\ \E c \in {None} \cup {Some(x.id) : x \in categories},
          t \in {{}, {k.id : k \in skills}} :
          ProjectApply("create", [NewProject(None, None)
                                     EXCEPT !.category = c, !.technologies = t])

----------------------------------------------------------------------------
(* Experience *)

\* most Experience rows stored
MaxExperiences == 1

\* Experience(title=, start_date=, end_date=, is_current=): an instance not yet saved
NewExperience(start, end, current) ==
    [id |-> NoPk, title |-> "Backend Developer", start_date |-> start,
     end_date |-> end, is_current |-> current]

\* clean_fields(): start_date is a DateField without blank=True
ExperienceCleanFields(inst) == IsSet(inst.start_date)

\* clean() with the date rule alone
ExperienceCleanDatesOnly(inst) ==
    ~(/\ IsSet(inst.end_date)
      /\ IsSet(inst.start_date)
      /\ Val(inst.end_date) < Val(inst.start_date))

\* clean(): if self.end_date and self.start_date and self.end_date < self.start_date:
\* raise; if self.is_current and self.end_date: raise
ExperienceClean(inst) ==
    /\ ~(/\ IsSet(inst.end_date)
         /\ IsSet(inst.start_date)
         /\ Val(inst.end_date) < Val(inst.start_date))
    /\ ~(inst.is_current /\ IsSet(inst.end_date))

\* full_clean(): clean_fields and clean (no unique field, no Meta.constraints)
ExperienceFullClean(inst) ==
    /\ ExperienceCleanFields(inst)
    /\ ExperienceClean(inst)

\* Experience has no save() of its own: Model.save() writes the row, and the
\* database checks NOT NULL on start_date and nothing else
ExperienceSave(rows, inst) ==
    LET obj == IF inst.id = NoPk THEN [inst EXCEPT !.id = NextId(rows)] ELSE inst
    IN  IF IsSet(inst.start_date)
        THEN [rows |-> {r \in rows : r.id # obj.id} \cup {obj}, error |-> "none"]
        ELSE [rows |-> rows, error |-> "IntegrityError"]

\* the admin form: ModelForm validation calls full_clean(), save_model() saves
ExperienceFormSave(rows, inst) ==
    IF ExperienceFullClean(inst)
    THEN ExperienceSave(rows, inst)
    ELSE [rows |-> rows, error |-> "ValidationError"]

NoExperienceOp ==
    [op |-> "none", arg |-> NewExperience(None, None, FALSE), error |-> "none"]

InitExperience ==
    /\ experiences = {}
    /\ experienceOp = NoExperienceOp

ExperienceApply(op, inst, result) ==
    /\ experiences' = result.rows
    /\ experienceOp' = [op |-> op, arg |-> inst, error |-> result.error]
    /\ UNCHANGED <<contactVars, settingsVars, skillVars, projectVars,
                   categoryVars, listingVars,
                   cacheVars, runVars>>

\* Experience.objects.create(start_date=, end_date=, is_current=)
ExperienceCreate ==
    /\ Cardinality(experiences) < MaxExperiences
    /\ \E s \in DateInputs, e \in DateInputs, c \in BOOLEAN :
          ExperienceApply("create", NewExperience(s, e, c),
                          ExperienceSave(experiences, NewExperience(s, e, c)))

\* a stored Experience is loaded, its fields are set and it is saved
ExperienceUpdate ==
    \E r \in experiences, s \in DateInputs, e \in DateInputs, c \in BOOLEAN :
        LET inst == [r EXCEPT !.start_date = s, !.end_date = e, !.is_current = c]
        IN  ExperienceApply("update", inst, ExperienceSave(experiences, inst))

\* Experience(**data).full_clean(): the instance is validated and not saved
ExperienceValidate ==
    \E s \in DateInputs, e \in DateInputs, c \in BOOLEAN :
        LET inst == NewExperience(s, e, c)
        IN  ExperienceApply("full_clean", inst,
                            [rows |-> experiences,
                             error |-> IF ExperienceFullClean(inst)
                                       THEN "none" ELSE "ValidationError"])

\* the admin add form is submitted
ExperienceAdminAdd ==
    /\ Cardinality(experiences) < MaxExperiences
    /\ \E s \in DateInputs, e \in DateInputs, c \in BOOLEAN :
          ExperienceApply("admin_add", NewExperience(s, e, c),
                          ExperienceFormSave(experiences, NewExperience(s, e, c)))

NextExperience ==
    \/ ExperienceCreate
    \/ ExperienceUpdate
    \/ ExperienceValidate
    \/ ExperienceAdminAdd

----------------------------------------------------------------------------
(* Query results: ORDER BY and Paginator *)

\* the characters of the Skill names, for the comparison of names
Spell ==
    [n \in {"Django", "Docker", "Python"} |->
        CASE n = "Django" -> <<"D", "j", "a", "n", "g", "o">>
          [] n = "Docker" -> <<"D", "o", "c", "k", "e", "r">>
          [] n = "Python" -> <<"P", "y", "t", "h", "o", "n">>]

\* the code points of these characters
Code ==
    [c \in {"D", "P", "a", "c", "e", "g", "h", "j", "k", "n", "o", "r", "t", "y"} |->
        CASE c = "D" -> 68 [] c = "P" -> 80 [] c = "a" -> 97 [] c = "c" -> 99
          [] c = "e" -> 101 [] c = "g" -> 103 [] c = "h" -> 104 [] c = "j" -> 106
          [] c = "k" -> 107 [] c = "n" -> 110 [] c = "o" -> 111 [] c = "r" -> 114
          [] c = "t" -> 116 [] c = "y" -> 121]

\* a name as the sequence of its code points
NameKey(name) == [i \in 1..Len(Spell[name]) |-> Code[Spell[name][i]]]

\* a sorts before b: the first position where they differ decides, a prefix comes first
RECURSIVE LexLess(_, _)
LexLess(a, b) ==
    IF b = <<>> THEN FALSE
    ELSE IF a = <<>> THEN TRUE
    ELSE IF Head(a) # Head(b) THEN Head(a) < Head(b)
    ELSE LexLess(Tail(a), Tail(b))

\* ORDER BY: the rows in ascending order of their keys; rows of equal keys come in
\* an order the database picks.  key is a function from the rows to their keys.
RECURSIVE OrderBy(_, _)
OrderBy(rows, key) ==
    IF rows = {} THEN <<>>
    ELSE LET first == CHOOSE r \in rows : \A q \in rows : ~LexLess(key[q], key[r])
         IN  <<first>> \o OrderBy(rows \ {first}, key)

\* a query parameter read as a number: absent, text int() converts to v, other text
NoParam == [t |-> "absent", v |-> 0]
IntParam(n) == [t |-> "int", v |-> n]
TextParam == [t |-> "text", v |-> 0]

\* math.ceil(a / b) for a >= 0 and b # 0
CeilDiv(a, b) == IF b > 0 THEN (a + b - 1) \div b ELSE 0 - (a \div (0 - b))

Raised(exc) == [exc |-> exc, v |-> 0]
Returned(v) == [exc |-> "none", v |-> v]

\* request.GET.get("page_size", settings.PAGINATION_PAGE_SIZE), then
\* Paginator.__init__: self.per_page = int(per_page)
PerPage(size) ==
    IF size.t = "text" THEN Raised("ValueError")
    ELSE Returned(IF size.t = "absent" THEN DefaultPageSize ELSE size.v)

\* the pages that are full: a last page that is not full is left out
NumPagesFloor(count, per_page) ==
    IF per_page = 0 THEN Raised("ZeroDivisionError")
    ELSE Returned(Max({1, count}) \div per_page)

\* Paginator.num_pages: hits = max(1, self.count - self.orphans);
\* ceil(hits / self.per_page)
NumPages(count, per_page) ==
    IF per_page = 0 THEN Raised("ZeroDivisionError")
    ELSE Returned(CeilDiv(Max({1, count}), per_page))

\* Paginator.page(number): validate_number, then the slice
\* object_list[bottom:top]; what it returns is the page's number and its items
PageOf(items, per_page, number) ==
    IF number.t = "text" THEN Raised("PageNotAnInteger")
    ELSE LET n == IF number.t = "absent" THEN 1 ELSE number.v
             pages == NumPages(Len(items), per_page)
             bottom == (n - 1) * per_page
             top == IF bottom + per_page >= Len(items) THEN Len(items)
                    ELSE bottom + per_page
         IN  IF n < 1 THEN Raised("EmptyPage")
             ELSE IF pages.exc # "none" THEN pages
             ELSE IF n > pages.v THEN Raised("EmptyPage")
             ELSE IF bottom < 0 \/ top < 0 THEN Raised("ValueError")
             ELSE Returned([number |-> n, items |-> SubSeq(items, bottom + 1, top)])

\* page 1 on PageNotAnInteger and on EmptyPage
PageOrFirst(items, per_page, page) ==
    LET asked == PageOf(items, per_page, page)
    IN  IF asked.exc \in {"PageNotAnInteger", "EmptyPage"}
        THEN PageOf(items, per_page, IntParam(1))
        ELSE asked

\* the try block around paginator.page(page): page 1 on PageNotAnInteger,
\* page num_pages on EmptyPage
PageOrFallback(items, per_page, page) ==
    LET asked == PageOf(items, per_page, page)
        pages == NumPages(Len(items), per_page)
    IN  IF asked.exc = "PageNotAnInteger" THEN PageOf(items, per_page, IntParam(1))
        ELSE IF asked.exc = "EmptyPage"
             THEN IF pages.exc # "none" THEN pages
                  ELSE PageOf(items, per_page, IntParam(pages.v))
        ELSE asked

\* the JSON of a listing: the page's items and the pagination block
Listed(page, count, pages) ==
    [status |-> 200, success |-> TRUE, items |-> page.items,
     pagination |-> [page |-> page.number, total_pages |-> pages, total_items |-> count,
                     has_next |-> page.number < pages,
                     has_previous |-> page.number > 1]]

\* the except clause of the view: HTTP 500
ListingFailed == [status |-> 500, success |-> FALSE]

\* Paginator(queryset, page_size) and the page of the request, or the except clause
Paginate(items, page, size) ==
    LET per_page == PerPage(size)
        got == PageOrFallback(items, per_page.v, page)
    IN  IF per_page.exc # "none" THEN ListingFailed
        ELSE IF got.exc # "none" THEN ListingFailed
        ELSE Listed(got.v, Len(items), NumPages(Len(items), per_page.v).v)

----------------------------------------------------------------------------
(* Queries of the views *)

\* [F(x) for x in s]
Map(s, F(_)) == [i \in 1..Len(s) |-> F(s[i])]

\* a query parameter read as text: absent, or the text sent
NoText(empty) == [t |-> "absent", v |-> empty]
Text(v) == [t |-> "str", v |-> v]

\* "if category:" and "if status_filter:": the parameter is sent and not empty
Given(param, empty) == param.t = "str" /\ param.v # empty

\* order_by("display_order", "name")
SkillOrderKey(rows) == [r \in rows |-> <<r.display_order>> \o NameKey(r.name)]

\* the Skills in order, featured or not
AllSkillsOrdered(rows) == OrderBy(rows, SkillOrderKey(rows))

\* Skill.get_featured_skills()
GetFeaturedSkills(rows) ==
    LET found == {r \in rows : r.is_featured} IN OrderBy(found, SkillOrderKey(found))

\* home: Skill.objects.filter(is_featured=True).order_by("display_order", "name")
HomeSkillsQuery(rows) ==
    LET found == {r \in rows : r.is_featured} IN OrderBy(found, SkillOrderKey(found))

\* skills_api: the same queryset, then filter(category=category) when one is given
SkillsApiQuery(rows, category) ==
    LET found == {r \in rows : /\ r.is_featured
                               /\ Given(category, "") => r.category = category.v}
    IN  OrderBy(found, SkillOrderKey(found))

\* the record home gives the template for a Skill (icon_url is not modelled)
HomeSkillItem(r) == [name |-> r.name, proficiency_level |-> r.proficiency_level]

\* the record skills_api serializes for a Skill
ApiSkillItem(r) ==
    [id |-> r.id, name |-> r.name, category |-> r.category,
     proficiency_level |-> r.proficiency_level, years_experience |-> r.years_experience]

\* str.lower() on the letters of the category names
Lower(c) ==
    CASE c = "W" -> "w" [] c = "E" -> "e" [] c = "B" -> "b"
      [] c = "A" -> "a" [] c = "P" -> "p" [] c = "I" -> "i"
      [] OTHER -> c

LowerText(s) == [i \in 1..Len(s) |-> Lower(s[i])]

\* needle occurs in hay
IsInfix(needle, hay) ==
    \E i \in 0..(Len(hay) - Len(needle)) : SubSeq(hay, i + 1, i + Len(needle)) = needle

\* the icontains lookup: LIKE '%needle%' without regard to case
IContains(hay, needle) == IsInfix(LowerText(needle), LowerText(hay))

\* order_by("display_order", "created_at"): the oldest first
OldestFirstKey(rows) == [r \in rows |-> <<r.display_order, r.created_at>>]

\* order_by("display_order", "-created_at")
ProjectOrderKey(rows) == [r \in rows |-> <<r.display_order, 0 - r.created_at>>]

\* Project.get_featured_projects()
GetFeaturedProjects(rows) ==
    LET found == {r \in rows : r.is_featured} IN OrderBy(found, ProjectOrderKey(found))

\* home: Project.objects.filter(is_featured=True).order_by("display_order", "-created_at")
HomeProjectsQuery(rows) ==
    LET found == {r \in rows : r.is_featured} IN OrderBy(found, ProjectOrderKey(found))

\* the category row a Project points to
CategoryOf(cats, p) == CHOOSE c \in cats : c.id = Val(p.category)

\* the category filter compares with the whole name
InCategoryExact(cats, p, text) ==
    /\ IsSet(p.category)
    /\ CategoryOf(cats, p).name = text

\* filter(category__name__icontains=category): the join drops Projects without a category
InCategory(cats, p, text) ==
    /\ IsSet(p.category)
    /\ IContains(CategoryOf(cats, p).name, text)

\* projects_api: the featured Projects in order, filtered by category when one is
\* given and by status when one is given
ProjectsApiQuery(rows, cats, category, status) ==
    LET found == {r \in rows : /\ r.is_featured
                               /\ Given(category, <<>>) => InCategory(cats, r, category.v)
                               /\ Given(status, "") => r.status = status.v}
    IN  OrderBy(found, ProjectOrderKey(found))

\* the linked Skills that are featured, in the order of Skill.Meta.ordering
FeaturedTechnologyNames(allSkills, p) ==
    LET linked == {k \in allSkills : k.id \in p.technologies /\ k.is_featured}
        ordered == OrderBy(linked, SkillOrderKey(linked))
    IN  [i \in 1..Len(ordered) |-> ordered[i].name]

\* project.technologies.all(): the linked Skills in the order of Skill.Meta.ordering
TechnologyNames(allSkills, p) ==
    LET linked == {k \in allSkills : k.id \in p.technologies}
        ordered == OrderBy(linked, SkillOrderKey(linked))
    IN  [i \in 1..Len(ordered) |-> ordered[i].name]

\* get_status_display(): the label of the status in STATUS_CHOICES
StatusDisplay(st) ==
    CASE st = "active" -> "Activo"
      [] st = "completed" -> "Completado"
      [] st = "archived" -> "Archivado"
      [] st = "in_progress" -> "En Desarrollo"
      [] OTHER -> st

\* the record home gives the template for a Project
HomeProjectItem(allSkills, cats, p) ==
    [title |-> p.title,
     category |-> IF IsSet(p.category) THEN Some(CategoryOf(cats, p).name) ELSE None,
     status |-> StatusDisplay(p.status),
     technologies |-> TechnologyNames(allSkills, p)]

\* the record projects_api serializes for a Project
ApiProjectItem(allSkills, cats, p) ==
    [id |-> p.id, title |-> p.title,
     category |-> IF IsSet(p.category)
                  THEN Some([name |-> CategoryOf(cats, p).name,
                             color |-> CategoryOf(cats, p).color])
                  ELSE None,
     status |-> p.status,
     technologies |-> TechnologyNames(allSkills, p),
     start_date |-> p.start_date, end_date |-> p.end_date]

----------------------------------------------------------------------------
(* Listings: the store is filled, then a listing of it is served *)

\* no listing served yet
NoListing == [view |-> "none"]

ListedSkillNames == SkillNames \cup {"Docker"}
DisplayOrders == {0, 1}
ProjectTitles == <<"Portfolio Web", "Task API", "Blog Engine", "Weather App">>

\* Skill.objects.create(name=, is_featured=, display_order=, category=) of a new name
SkillPublishWith(names, featureds, orders, cats) ==
    /\ listing = NoListing
    /\ \E n \in names \ {r.name : r \in skills},
          f \in featureds, o \in orders, c \in cats :
          SkillApply("create", [NewSkill(n, 3, None) EXCEPT !.is_featured = f,
                                                           !.display_order = o,
                                                           !.category = c])

\* Project.objects.create(title=, category=, status=, is_featured=, display_order=);
\* filed tells whether a stored category may be given
ProjectPublishWith(filed, statuses, featureds, orders) ==
    /\ listing = NoListing
    /\ Cardinality(projects) < MaxProjects
    /\ NextId(projects) <= Len(ProjectTitles)
    /\ \E c \in {None} \cup {Some(x.id) : x \in {y \in categories : filed}},
          st \in statuses, f \in featureds, o \in orders :
          ProjectApply("create", [NewProject(None, None)
                                     EXCEPT !.title = ProjectTitles[NextId(projects)],
                                            !.category = c,
                                            !.status = st,
                                            !.is_featured = f,
                                            !.display_order = o])

\* a category is created before the listing
CategoryOpen == listing = NoListing /\ CategoryAdd

\* the view runs on the store as it is and its result is recorded
Serve(result) ==
    /\ listing = NoListing
    /\ listing' = result
    /\ UNCHANGED <<contactVars, settingsVars, skillVars, projectVars,
                   experienceVars, categoryVars, cacheVars, runVars>>

\* Skill.get_featured_skills() is evaluated
FeaturedSkillsCall ==
    Serve([view |-> "get_featured_skills", items |-> GetFeaturedSkills(skills)])

\* Project.get_featured_projects() is evaluated
FeaturedProjectsCall ==
    Serve([view |-> "get_featured_projects", items |-> GetFeaturedProjects(projects)])

\* GET /: the context home renders
Home ==
    LET item(p) == HomeProjectItem(skills, categories, p)
    IN  Serve([view |-> "home",
               skills |-> Map(HomeSkillsQuery(skills), HomeSkillItem),
               projects |-> Map(HomeProjectsQuery(projects), item)])

\* the items of a listing that succeeded, serialized
Serialized(resp, F(_)) ==
    IF resp.status = 200 THEN [resp EXCEPT !.items = Map(@, F)] ELSE resp

\* GET /api/skills/?page=&page_size=&category=
SkillsApiWith(pages, sizes, cats) ==
    \E page \in pages, size \in sizes, category \in cats :
        Serve([view |-> "skills_api", page |-> page, size |-> size,
               category |-> category,
               resp |-> Serialized(Paginate(SkillsApiQuery(skills, category), page, size),
                                   ApiSkillItem)])

\* GET /api/projects/?page=&page_size=&category=&status=
ProjectsApiWith(pages, sizes, cats, statuses) ==
    \E page \in pages, size \in sizes, category \in cats, status \in statuses :
        LET item(p) == ApiProjectItem(skills, categories, p)
            found == ProjectsApiQuery(projects, categories, category, status)
        IN  Serve([view |-> "projects_api", page |-> page, size |-> size,
                   category |-> category, status |-> status,
                   resp |-> Serialized(Paginate(found, page, size), item)])

\* the page and page_size parameters requests are sent with
PageInputs ==
    {NoParam, TextParam, IntParam(0 - 1), IntParam(0), IntParam(1), IntParam(2),
     IntParam(3), IntParam(9999)}
SizeInputs ==
    {NoParam, TextParam, IntParam(0 - 1), IntParam(0 - 2), IntParam(0), IntParam(1),
     IntParam(2)}

----------------------------------------------------------------------------
(* The cache *)

\* an entry: whether the key was ever set, when it expires, the value stored
NoEntry == [set |-> FALSE, expires |-> 0, value |-> None]
Entry(value, expires) == [set |-> TRUE, expires |-> expires, value |-> Some(value)]

CacheKeys == {"portfolio_settings", "home", "skills_api", "projects_api"}

InitCache ==
    /\ cache = [k \in CacheKeys |-> NoEntry]
    /\ clock = 0

\* settings.CACHE_TIMEOUT_MEDIUM and settings.CACHE_TIMEOUT_LONG, in clock units
CacheTimeoutMedium == 1
CacheTimeoutLong == 2

\* cache.get(key) finds the entry until its expiry time is reached
Live(e, now) == e.set /\ now < e.expires

\* PortfolioSettings.get_settings() on every call of the view, and cache.set
SettingsFromStore(entry, rows, now) ==
    LET got == GetOrCreateSettings(rows)
    IN  [obj |-> got.obj, rows |-> got.rows,
         entry |-> Entry(got.obj, now + CacheTimeoutLong)]

\* home: portfolio_settings = cache.get("portfolio_settings"); if not
\* portfolio_settings: get_settings() and cache.set(..., CACHE_TIMEOUT_LONG)
PortfolioSettingsFor(entry, rows, now) ==
    IF Live(entry, now)
    THEN [obj |-> Val(entry.value), rows |-> rows, entry |-> entry]
    ELSE SettingsFromStore(entry, rows, now)

\* the context home renders with the settings it was given
HomeContext(ps, allSkills, cats, rows) ==
    [status |-> 200,
     skills |-> [i \in 1..Len(HomeSkillsQuery(allSkills)) |->
                    HomeSkillItem(HomeSkillsQuery(allSkills)[i])],
     projects |-> [i \in 1..Len(HomeProjectsQuery(rows)) |->
                      HomeProjectItem(allSkills, cats, HomeProjectsQuery(rows)[i])],
     github_url |-> ps.github_username,
     settings |-> ps]

\* GET /api/skills/ and GET /api/projects/ without parameters, on the store as it is
SkillsApiBody ==
    LET resp == Paginate(SkillsApiQuery(skills, NoText("")), NoParam, NoParam)
    IN  [resp EXCEPT !.items = [i \in 1..Len(@) |-> ApiSkillItem(@[i])]]

ProjectsApiBody ==
    LET resp == Paginate(ProjectsApiQuery(projects, categories, NoText(<<>>), NoText("")),
                         NoParam, NoParam)
    IN  [resp EXCEPT !.items = [i \in 1..Len(@) |-> ApiProjectItem(skills, categories, @[i])]]

\* what a request through cache_page leaves in the listing
Read(key, hit, resp) ==
    [view |-> "cached", key |-> key, at |-> clock, hit |-> hit, resp |-> resp]

\* GET / through cache_page(CACHE_TIMEOUT_MEDIUM): the cached response while it is
\* live, else the view runs and its response is cached
CachedHome ==
    LET ps == PortfolioSettingsFor(cache.portfolio_settings, settingsRows, clock)
        body == HomeContext(ps.obj, skills, categories, projects)
    IN  /\ IF Live(cache.home, clock)
           THEN /\ listing' = Read("home", TRUE, Val(cache.home.value))
                /\ UNCHANGED <<cache, settingsRows>>
           ELSE /\ listing' = Read("home", FALSE, body)
                /\ settingsRows' = ps.rows
                /\ cache' = [cache EXCEPT !.portfolio_settings = ps.entry,
                                          !.home = Entry(body, clock + CacheTimeoutMedium)]
        /\ UNCHANGED <<contactVars, settingsOp, skillVars, projectVars, experienceVars,
                       categoryVars, clock, runVars>>

\* skills_api or projects_api through cache_page(CACHE_TIMEOUT_MEDIUM); only a
\* response with status 200 is cached
CachedApi(key, body) ==
    /\ IF Live(cache[key], clock)
       THEN /\ listing' = Read(key, TRUE, Val(cache[key].value))
            /\ UNCHANGED cache
       ELSE /\ listing' = Read(key, FALSE, body)
            /\ cache' = IF body.status = 200
                        THEN [cache EXCEPT ![key] = Entry(body, clock + CacheTimeoutMedium)]
                        ELSE cache
    /\ UNCHANGED <<contactVars, settingsVars, skillVars, projectVars, experienceVars,
                   categoryVars, clock, runVars>>

CachedSkillsApi == CachedApi("skills_api", SkillsApiBody)

CachedProjectsApi == CachedApi("projects_api", ProjectsApiBody)

\* largest time of the clock
MaxClock == 2

\* time passes
Tick ==
    /\ clock < MaxClock
    /\ clock' = clock + 1
    /\ UNCHANGED <<contactVars, settingsVars, skillVars, projectVars, experienceVars,
                   categoryVars, listingVars, cache, runVars>>

\* the administrator changes the github_username of the Settings row
SettingsRename ==
    \E r \in settingsRows, u \in {DefaultUser, "octocat"} :
        LET inst == [r EXCEPT !.github_username = u]
        IN  /\ u # r.github_username
            /\ SettingsApply("edit", inst, SettingsSave(settingsRows, inst, FALSE))

----------------------------------------------------------------------------
(* Runs in progress *)

NoSeedOp == [op |-> "none", force |-> FALSE, error |-> "none", n |-> 0, seeded |-> FALSE]

InitRuns ==
    /\ callers = <<>>
    /\ seedOp = NoSeedOp
    /\ txns = <<>>

\* most get_settings() calls in progress at once
MaxCallers == 3

\* a get_settings() call that has not yet looked the row up
NewCaller ==
    [pc |-> "get", missed |-> FALSE, conflicted |-> FALSE,
     ret |-> NewSettings(DefaultTitle, DefaultUser), error |-> "none"]

\* a request calls PortfolioSettings.get_settings()
CallerStart ==
    /\ Len(callers) < MaxCallers
    /\ callers' = Append(callers, NewCaller)
    /\ UNCHANGED <<contactVars, settingsVars, skillVars, projectVars, experienceVars,
                   categoryVars, listingVars, cacheVars, seedOp, txns>>

\* get_or_create(pk=1), first step: self.get(pk=1); the row is returned, or
\* DoesNotExist sends the call on to create
CallerGet ==
    \E i \in DOMAIN callers :
        LET found == {r \in settingsRows : r.pk = SingletonPk}
        IN  /\ callers[i].pc = "get"
            /\ callers' = [callers EXCEPT ![i] =
                              IF found # {}
                              THEN [@ EXCEPT !.pc = "done", !.ret = CHOOSE r \in found : TRUE]
                              ELSE [@ EXCEPT !.pc = "create", !.missed = TRUE]]
            /\ UNCHANGED <<contactVars, settingsVars, skillVars, projectVars,
                           experienceVars, categoryVars, listingVars, cacheVars,
                           seedOp, txns>>

\* get_or_create, after IntegrityError: self.get(pk=1) again; without a row the
\* IntegrityError is raised
RaiseConflict(rows, c) == [c EXCEPT !.pc = "done", !.error = "IntegrityError"]

GetAfterConflict(rows, c) ==
    LET found == {r \in rows : r.pk = SingletonPk}
    IN  IF found # {}
        THEN [c EXCEPT !.pc = "done", !.ret = CHOOSE r \in found : TRUE]
        ELSE [c EXCEPT !.pc = "done", !.error = "IntegrityError"]

\* get_or_create, second step: self.create(pk=1) in a savepoint; the row is inserted
\* and returned, or the primary key is taken and IntegrityError sends the call on
CallerCreate ==
    \E i \in DOMAIN callers :
        LET made == SettingsSave(settingsRows,
                                 [NewSettings(DefaultTitle, DefaultUser)
                                     EXCEPT !.pk = SingletonPk], TRUE)
        IN  /\ callers[i].pc = "create"
            /\ settingsRows' = made.rows
            /\ callers' = [callers EXCEPT ![i] =
                              IF made.error = "none"
                              THEN [@ EXCEPT !.pc = "done", !.ret = made.obj]
                              ELSE [@ EXCEPT !.pc = "again", !.conflicted = TRUE]]
            /\ UNCHANGED <<contactVars, settingsOp, skillVars, projectVars,
                           experienceVars, categoryVars, listingVars, cacheVars,
                           seedOp, txns>>

\* get_or_create, third step
CallerGetAgain ==
    \E i \in DOMAIN callers :
        /\ callers[i].pc = "again"
        /\ callers' = [callers EXCEPT ![i] = GetAfterConflict(settingsRows, @)]
        /\ UNCHANGED <<contactVars, settingsVars, skillVars, projectVars,
                       experienceVars, categoryVars, listingVars, cacheVars,
                       seedOp, txns>>

----------------------------------------------------------------------------
(* The populate_portfolio command *)

\* skills_data: name, category, proficiency_level and display_order of each entry
SeedSkill(name, category, level, order) ==
    [name |-> name, category |-> category, proficiency_level |-> level,
     display_order |-> order]

SkillsData ==
    <<SeedSkill("Python", "language", 4, 1), SeedSkill("Django", "framework", 4, 2),
      SeedSkill("FastAPI", "framework", 3, 3), SeedSkill("Flask", "framework", 3, 4),
      SeedSkill("SQL", "database", 3, 5), SeedSkill("PostgreSQL", "database", 3, 6),
      SeedSkill("Git", "tool", 3, 7), SeedSkill("Docker", "cloud", 3, 8),
      SeedSkill("NGINX", "tool", 2, 9), SeedSkill("HTML", "language", 3, 10),
      SeedSkill("CSS", "language", 3, 11), SeedSkill("JavaScript", "language", 2, 12)>>

\* categories_data
WebApplication ==
    <<"W", "e", "b", " ", "A", "p", "p", "l", "i", "c", "a", "t", "i", "o", "n">>

CategoriesData ==
    <<[name |-> WebApplication, color |-> <<"#", "3", "B", "8", "2", "F", "6">>],
      [name |-> <<"A", "P", "I">>, color |-> <<"#", "1", "0", "B", "9", "8", "1">>],
      [name |-> <<"L", "i", "b", "r", "a", "r", "y">>,
       color |-> <<"#", "8", "B", "5", "C", "F", "6">>],
      [name |-> <<"T", "o", "o", "l">>, color |-> <<"#", "F", "5", "9", "E", "0", "B">>]>>

\* projects_data: title, status and display_order; the category is web_category
ProjectsData ==
    <<[title |-> "Biblioteca Digital", status |-> "completed", display_order |-> 1],
      [title |-> "Gestor de Tareas", status |-> "completed", display_order |-> 2],
      [title |-> "To-Do App", status |-> "completed", display_order |-> 3]>>

\* link_project_technologies: the Skill names set on each Project
BasicStack == {"Python", "Django", "HTML", "CSS"}

TechnologiesData ==
    <<[title |-> "Biblioteca Digital", names |-> BasicStack],
      [title |-> "Gestor de Tareas", names |-> BasicStack \cup {"JavaScript"}],
      [title |-> "To-Do App", names |-> BasicStack]>>

\* the rows a run works on, and the exception that ended it
Database(s, c, p, t) ==
    [skills |-> s, categories |-> c, projects |-> p, settingsRows |-> t, error |-> "none"]

Raise(db, error) == [db EXCEPT !.error = error]

\* full_clean() of a Project against the categories the run sees
ProjectFullCleanIn(cats, inst) ==
    /\ inst.status \in ProjectStatuses
    /\ IsSet(inst.category) => \E c \in cats : c.id = Val(inst.category)
    /\ ProjectClean(inst)
    /\ ProjectConstraints(inst)

\* Project.save() against the categories the run sees
ProjectSaveIn(cats, rows, inst) ==
    IF ProjectFullCleanIn(cats, inst)
    THEN ProjectWrite(rows, inst)
    ELSE [rows |-> rows, error |-> "ValidationError"]

\* update_or_create(name=, defaults=): a found row takes the data in every run
OverwriteSkill(db, data, force) ==
    LET found == {r \in db.skills : r.name = data.name}
        made == [NewSkill(data.name, data.proficiency_level, None)
                    EXCEPT !.category = data.category,
                           !.display_order = data.display_order]
        row == CHOOSE r \in found : TRUE
        taken == [row EXCEPT !.category = data.category,
                             !.proficiency_level = data.proficiency_level,
                             !.display_order = data.display_order]
        saved == SkillSave(db.skills, IF found = {} THEN made ELSE taken)
    IN  IF db.error # "none"
        THEN db
        ELSE IF saved.error # "none"
             THEN Raise(db, saved.error)
             ELSE [db EXCEPT !.skills = saved.rows]

\* populate_skills: one pass of the loop. get_or_create(name=, defaults=) finds the
\* row or creates it; under force a found row takes the data and is saved
PopulateSkill(db, data, force) ==
    LET found == {r \in db.skills : r.name = data.name}
        made == [NewSkill(data.name, data.proficiency_level, None)
                    EXCEPT !.category = data.category,
                           !.display_order = data.display_order]
        row == CHOOSE r \in found : TRUE
        taken == [row EXCEPT !.category = data.category,
                             !.proficiency_level = data.proficiency_level,
                             !.display_order = data.display_order]
        saved == SkillSave(db.skills, IF found = {} THEN made ELSE taken)
    IN  IF db.error # "none" \/ (found # {} /\ ~force)
        THEN db
        ELSE IF saved.error # "none"
             THEN Raise(db, saved.error)
             ELSE [db EXCEPT !.skills = saved.rows]

RECURSIVE PopulateSkillsFrom(_, _, _)
PopulateSkillsFrom(db, force, i) ==
    IF i > Len(SkillsData)
    THEN db
    ELSE PopulateSkillsFrom(PopulateSkill(db, SkillsData[i], force), force, i + 1)

PopulateSkills(db, force) == PopulateSkillsFrom(db, force, 1)

\* populate_project_categories: get_or_create(name=, defaults=) for each entry
PopulateCategory(db, data) ==
    LET found == {r \in db.categories : r.name = data.name}
        saved == CategorySave(db.categories, NewCategory(data.name, data.color))
    IN  IF db.error # "none" \/ found # {}
        THEN db
        ELSE IF saved.error # "none"
             THEN Raise(db, saved.error)
             ELSE [db EXCEPT !.categories = saved.rows]

RECURSIVE PopulateCategoriesFrom(_, _)
PopulateCategoriesFrom(db, i) ==
    IF i > Len(CategoriesData)
    THEN db
    ELSE PopulateCategoriesFrom(PopulateCategory(db, CategoriesData[i]), i + 1)

PopulateProjectCategories(db) == PopulateCategoriesFrom(db, 1)

\* a Project of projects_data, not yet saved
SeedProject(data, web) ==
    [NewProject(None, None)
        EXCEPT !.title = data.title, !.category = Some(web.id),
               !.status = data.status, !.display_order = data.display_order]

\* a row is created whether or not the title is stored
CreateProjectAnyway(db, data, web, force) ==
    LET saved == ProjectSaveIn(db.categories, db.projects, SeedProject(data, web))
    IN  IF db.error # "none" THEN db ELSE [db EXCEPT !.projects = saved.rows]

\* populate_projects: one pass of the loop. get_or_create(title=, defaults=) finds
\* the row, creates it, or raises when several rows hold the title; under force a
\* found row takes the data but the title and is saved
PopulateProject(db, data, web, force) ==
    LET found == {r \in db.projects : r.title = data.title}
        row == CHOOSE r \in found : TRUE
        taken == [row EXCEPT !.category = Some(web.id), !.status = data.status,
                             !.display_order = data.display_order]
        saved == ProjectSaveIn(db.categories, db.projects,
                               IF found = {} THEN SeedProject(data, web) ELSE taken)
    IN  IF db.error # "none"
        THEN db
        ELSE IF Cardinality(found) > 1
             THEN Raise(db, "MultipleObjectsReturned")
             ELSE IF found # {} /\ ~force
                  THEN db
                  ELSE IF saved.error # "none"
                       THEN Raise(db, saved.error)
                       ELSE [db EXCEPT !.projects = saved.rows]

RECURSIVE PopulateProjectsFrom(_, _, _, _)
PopulateProjectsFrom(db, web, force, i) ==
    IF i > Len(ProjectsData)
    THEN db
    ELSE PopulateProjectsFrom(PopulateProject(db, ProjectsData[i], web, force),
                              web, force, i + 1)

\* link_project_technologies: Project.objects.get(title=) and technologies.set([...])
\* for one of the three titles
LinkOne(db, data) ==
    LET found == {r \in db.projects : r.title = data.title}
        row == CHOOSE r \in found : TRUE
        ids == {k.id : k \in {r \in db.skills : r.name \in data.names}}
    IN  IF db.error # "none"
        THEN db
        ELSE IF found = {}
             THEN Raise(db, "DoesNotExist")
             ELSE IF Cardinality(found) > 1
                  THEN Raise(db, "MultipleObjectsReturned")
                  ELSE [db EXCEPT !.projects =
                           (@ \ {row}) \cup {[row EXCEPT !.technologies = ids]}]

RECURSIVE LinkFrom(_, _)
LinkFrom(db, i) ==
    IF i > Len(TechnologiesData)
    THEN db
    ELSE LinkFrom(LinkOne(db, TechnologiesData[i]), i + 1)

\* link_project_technologies: Skill.objects.get(name=) for the five names, then the
\* three projects
LinkProjectTechnologies(db) ==
    IF db.error # "none"
    THEN db
    ELSE IF \E n \in BasicStack \cup {"JavaScript"} : \A r \in db.skills : r.name # n
         THEN Raise(db, "DoesNotExist")
         ELSE LinkFrom(db, 1)

\* the loop with Project.objects.create() and no link_project_technologies()
CreateProjects(db, force) ==
    LET web == CHOOSE c \in db.categories : c.name = WebApplication
    IN  CreateProjectAnyway(
            CreateProjectAnyway(
                CreateProjectAnyway(db, ProjectsData[1], web, force),
                ProjectsData[2], web, force),
            ProjectsData[3], web, force)

\* populate_projects: web_category = ProjectCategory.objects.get(name="Web
\* Application"), the loop, then link_project_technologies()
PopulateProjects(db, force) ==
    LET webs == {c \in db.categories : c.name = WebApplication}
    IN  IF db.error # "none"
        THEN db
        ELSE IF webs = {}
             THEN Raise(db, "DoesNotExist")
             ELSE LinkProjectTechnologies(
                      PopulateProjectsFrom(db, CHOOSE c \in webs : TRUE, force, 1))

\* populate_settings: get_or_create(pk=1, defaults=settings_data); under force a
\* found row takes the data and is saved
PopulateSettings(db, force) ==
    LET found == {r \in db.settingsRows : r.pk = SingletonPk}
        got == GetOrCreateSettings(db.settingsRows)
        saved == SettingsSave(got.rows, [got.obj EXCEPT !.site_title = DefaultTitle,
                                                        !.github_username = DefaultUser],
                              FALSE)
    IN  IF db.error # "none"
        THEN db
        ELSE IF found # {} /\ force
             THEN [db EXCEPT !.settingsRows = saved.rows]
             ELSE [db EXCEPT !.settingsRows = got.rows]

\* handle(): the four steps inside transaction.atomic(); an exception undoes them all
Handle(db, force) ==
    LET end == PopulateSettings(
                   PopulateProjects(
                       PopulateProjectCategories(PopulateSkills(db, force)), force), force)
    IN  IF end.error = "none" THEN end ELSE Raise(db, end.error)

\* most runs of the command
MaxRuns == 2

\* python manage.py populate_portfolio [--force], with no other writer at work
SeedRun ==
    \E force \in BOOLEAN :
        LET end == Handle(Database(skills, categories, projects, settingsRows), force)
        IN  /\ seedOp.n < MaxRuns
            /\ skills' = end.skills
            /\ categories' = end.categories
            /\ projects' = end.projects
            /\ settingsRows' = end.settingsRows
            /\ seedOp' = [op |-> "populate_portfolio", force |-> force,
                          error |-> end.error, n |-> seedOp.n + 1,
                          seeded |-> seedOp.seeded \/ end.error = "none"]
            /\ UNCHANGED <<contactVars, settingsOp, skillOp, projectOp, experienceVars,
                           categoryOp, listingVars, cacheVars, callers, txns>>
----------------------------------------------------------------------------
(* Runs of populate_portfolio side by side, one database transaction each *)

\* the steps of handle() in order: a get_or_create per entry of skills_data and of
\* categories_data, the get of web_category, a get_or_create per entry of
\* projects_data, link_project_technologies, the get_or_create of the settings
Step(kind, i) == [kind |-> kind, i |-> i]

Program ==
    [i \in DOMAIN SkillsData |-> Step("skill", i)]
        \o [i \in DOMAIN CategoriesData |-> Step("category", i)]
        \o <<Step("web", 1)>>
        \o [i \in DOMAIN ProjectsData |-> Step("project", i)]
        \o <<Step("link", 1), Step("settings", 1)>>

\* the rows a transaction has written and not yet committed; links holds the
\* technologies it has set
NoWrites ==
    [skills |-> {}, categories |-> {}, projects |-> {}, settingsRows |-> {}, links |-> {}]

\* with transaction.atomic(): a run that has just begun
NewTxn ==
    [status |-> "active", pc |-> 1, at |-> "get", writes |-> NoWrites,
     waited |-> FALSE, error |-> "none"]

\* technologies.set() applied to the rows it was called on
Linked(rows, links) ==
    {IF \E l \in links : l.id = r.id
     THEN [r EXCEPT !.technologies = (CHOOSE l \in links : l.id = r.id).technologies]
     ELSE r : r \in rows}

\* what a transaction reads: the committed rows and its own writes
ViewOf(t) ==
    Database(skills \cup t.writes.skills,
             categories \cup t.writes.categories,
             Linked(projects \cup t.writes.projects, t.writes.links),
             settingsRows \cup t.writes.settingsRows)

\* the rows of the table a step works on
RowsOf(db, kind) ==
    CASE kind = "skill" -> db.skills
      [] kind = "category" -> db.categories
      [] kind = "project" -> db.projects
      [] OTHER -> db.settingsRows

\* the lookup of the step's get_or_create: name=, title= or pk=1
Found(db, step) ==
    CASE step.kind = "skill" ->
             {r \in db.skills : r.name = SkillsData[step.i].name}
      [] step.kind = "category" ->
             {r \in db.categories : r.name = CategoriesData[step.i].name}
      [] step.kind = "project" ->
             {r \in db.projects : r.title = ProjectsData[step.i].title}
      [] OTHER -> {r \in db.settingsRows : r.pk = SingletonPk}

\* Skill.name and ProjectCategory.name are unique=True and pk is the primary key;
\* Project.title is not unique
Unique(kind) == kind \in {"skill", "category", "settings"}

\* no constraint makes a writer wait for another
NeverConflicting(ts, i, step) == FALSE

\* the INSERT of the step meets a row of the same unique value written by another
\* transaction that has not ended: the database makes the writer wait
Conflicting(ts, i, step) ==
    /\ Unique(step.kind)
    /\ \E j \in DOMAIN ts \ {i} :
          /\ ts[j].status = "active"
          /\ Found(ts[j].writes, step) # {}

\* every row of the table, committed or not: the database hands out ids from these
AllRows(ts, kind) ==
    RowsOf(Database(skills, categories, projects, settingsRows), kind)
        \cup UNION {RowsOf(ts[j].writes, kind) : j \in DOMAIN ts}

\* the instance the step's create() builds, and its full_clean() in save()
Made(db, step) ==
    CASE step.kind = "skill" ->
             [NewSkill(SkillsData[step.i].name, SkillsData[step.i].proficiency_level, None)
                 EXCEPT !.category = SkillsData[step.i].category,
                        !.display_order = SkillsData[step.i].display_order]
      [] step.kind = "category" ->
             NewCategory(CategoriesData[step.i].name, CategoriesData[step.i].color)
      [] step.kind = "project" ->
             SeedProject(ProjectsData[step.i],
                         CHOOSE c \in db.categories : c.name = WebApplication)
      [] OTHER -> [NewSettings(DefaultTitle, DefaultUser) EXCEPT !.pk = SingletonPk]

Cleaned(db, step) ==
    CASE step.kind = "skill" -> SkillFullClean(db.skills, Made(db, step))
      [] step.kind = "category" -> CategoryFullClean(db.categories, Made(db, step))
      [] step.kind = "project" -> ProjectFullCleanIn(db.categories, Made(db, step))
      [] OTHER -> TRUE

\* the row the INSERT stores
Inserted(ts, db, step) ==
    CASE step.kind = "settings" -> Made(db, step)
      [] step.kind = "project" ->
             [Made(db, step) EXCEPT !.id = NextId(AllRows(ts, step.kind)),
                                    !.created_at = Now(AllRows(ts, step.kind))]
      [] OTHER -> [Made(db, step) EXCEPT !.id = NextId(AllRows(ts, step.kind))]

Write(t, step, row) ==
    CASE step.kind = "skill" -> [t EXCEPT !.writes.skills = @ \cup {row}]
      [] step.kind = "category" -> [t EXCEPT !.writes.categories = @ \cup {row}]
      [] step.kind = "project" -> [t EXCEPT !.writes.projects = @ \cup {row}]
      [] OTHER -> [t EXCEPT !.writes.settingsRows = @ \cup {row}]

Advance(t) == [t EXCEPT !.pc = @ + 1, !.at = "get"]

\* an exception leaves the atomic block: the writes are rolled back
Abort(t, error) ==
    [t EXCEPT !.status = "aborted", !.writes = NoWrites, !.error = error]

\* the step a transaction is at
Running(i) ==
    /\ txns[i].status = "active"
    /\ txns[i].pc <= Len(Program)

\* most runs side by side
MaxTxns == 2

\* a run of the command begins
TxnBegin ==
    /\ Len(txns) < MaxTxns
    /\ seedOp.n = 0
    /\ txns' = Append(txns, NewTxn)
    /\ UNCHANGED <<contactVars, settingsVars, skillVars, projectVars, experienceVars,
                   categoryVars, listingVars, cacheVars, callers, seedOp>>

\* the titles link_project_technologies sets the technologies of
LinkedTitles == {TechnologiesData[k].title : k \in DOMAIN TechnologiesData}

\* the reads of a step: the get of get_or_create (a found row ends the step, no row
\* sends it on to create, several Projects raise), the get of web_category, or
\* link_project_technologies with its gets and its technologies.set()
Got(t, step) ==
    LET db == ViewOf(t)
        found == Found(db, step)
        linked == LinkProjectTechnologies(db)
    IN  CASE step.kind = "web" ->
                 IF \E c \in db.categories : c.name = WebApplication
                 THEN Advance(t)
                 ELSE Abort(t, "DoesNotExist")
          [] step.kind = "link" ->
                 IF linked.error # "none"
                 THEN Abort(t, linked.error)
                 ELSE Advance([t EXCEPT !.writes.links =
                                  {[id |-> q.id, technologies |-> q.technologies] :
                                      q \in {p \in linked.projects :
                                                p.title \in LinkedTitles}}])
          [] OTHER ->
                 IF step.kind = "project" /\ Cardinality(found) > 1
                 THEN Abort(t, "MultipleObjectsReturned")
                 ELSE IF found # {}
                      THEN Advance(t)
                      ELSE [t EXCEPT !.at = "clean"]

TxnGet ==
    \E i \in DOMAIN txns :
        /\ Running(i)
        /\ txns[i].at = "get"
        /\ txns' = [txns EXCEPT ![i] = Got(@, Program[@.pc])]
        /\ UNCHANGED <<contactVars, settingsVars, skillVars, projectVars, experienceVars,
                       categoryVars, listingVars, cacheVars, callers, seedOp>>

\* create(): save() runs full_clean(), whose validate_unique() reads the table
TxnClean ==
    \E i \in DOMAIN txns :
        /\ Running(i)
        /\ txns[i].at = "clean"
        /\ txns' = [txns EXCEPT ![i] =
                       IF Cleaned(ViewOf(@), Program[@.pc])
                       THEN [@ EXCEPT !.at = "insert"]
                       ELSE Abort(@, "ValidationError")]
        /\ UNCHANGED <<contactVars, settingsVars, skillVars, projectVars, experienceVars,
                       categoryVars, listingVars, cacheVars, callers, seedOp>>

\* create(): the INSERT. A committed row of the same unique value is an
\* IntegrityError, which get_or_create catches; such a row of a transaction in
\* progress makes the writer wait; else the row is written
TxnInsert ==
    \E i \in DOMAIN txns :
        LET t == txns[i]
            step == Program[t.pc]
            db == Database(skills, categories, projects, settingsRows)
        IN  /\ Running(i)
            /\ t.at = "insert"
            /\ txns' = [txns EXCEPT ![i] =
                           IF Unique(step.kind) /\ Found(db, step) # {}
                           THEN [t EXCEPT !.at = "again"]
                           ELSE IF Conflicting(txns, i, step)
                                THEN [t EXCEPT !.at = "wait", !.waited = TRUE]
                                ELSE Advance(Write(t, step,
                                                   Inserted(txns, ViewOf(t), step)))]
            /\ UNCHANGED <<contactVars, settingsVars, skillVars, projectVars,
                           experienceVars, categoryVars, listingVars, cacheVars,
                           callers, seedOp>>

\* the transaction waited for has ended: the INSERT goes on
TxnWaitEnd ==
    \E i \in DOMAIN txns :
        /\ Running(i)
        /\ txns[i].at = "wait"
        /\ ~Conflicting(txns, i, Program[txns[i].pc])
        /\ txns' = [txns EXCEPT ![i].at = "insert"]
        /\ UNCHANGED <<contactVars, settingsVars, skillVars, projectVars, experienceVars,
                       categoryVars, listingVars, cacheVars, callers, seedOp>>

\* the database gives the wait up (SQLite: "database is locked"): the run fails
TxnBusy ==
    \E i \in DOMAIN txns :
        /\ Running(i)
        /\ txns[i].at = "wait"
        /\ txns' = [txns EXCEPT ![i] = Abort(@, "OperationalError")]
        /\ UNCHANGED <<contactVars, settingsVars, skillVars, projectVars, experienceVars,
                       categoryVars, listingVars, cacheVars, callers, seedOp>>

\* get_or_create after IntegrityError: the get again. It returns the committed row,
\* or under a snapshot taken before that commit finds none and the error is raised
TxnGetAgain ==
    \E i \in DOMAIN txns, visible \in BOOLEAN :
        /\ Running(i)
        /\ txns[i].at = "again"
        /\ txns' = [txns EXCEPT ![i] =
                       IF visible /\ Found(ViewOf(@), Program[@.pc]) # {}
                       THEN Advance(@)
                       ELSE Abort(@, "IntegrityError")]
        /\ UNCHANGED <<contactVars, settingsVars, skillVars, projectVars, experienceVars,
                       categoryVars, listingVars, cacheVars, callers, seedOp>>

\* the atomic block is left without an exception: the writes are committed
TxnCommit ==
    \E i \in DOMAIN txns :
        LET t == txns[i]
        IN  /\ t.status = "active"
            /\ t.pc > Len(Program)
            /\ skills' = skills \cup t.writes.skills
            /\ categories' = categories \cup t.writes.categories
            /\ projects' = Linked(projects \cup t.writes.projects, t.writes.links)
            /\ settingsRows' = settingsRows \cup t.writes.settingsRows
            /\ txns' = [txns EXCEPT ![i] = [t EXCEPT !.status = "committed",
                                                     !.writes = NoWrites]]
            /\ UNCHANGED <<contactVars, settingsOp, skillOp, projectOp, experienceVars,
                           categoryOp, listingVars, cacheVars, callers, seedOp>>

\* every run begun has ended
Ended == txns # <<>> /\ \A i \in DOMAIN txns : txns[i].status # "active"

\* the command is run once more after the runs side by side
LaterRun == Ended /\ SeedRun
----------------------------------------------------------------------------
(* Unexpected failures: what the caller is sent *)

\* what str(exception) may be
ExceptionTexts ==
    {"database is locked", "relation core_skill does not exist", "division by zero", ""}

\* contact_form, except Exception: the exception goes to the log only
ContactFailure(text) == InternalError

\* skills_api and projects_api, except Exception: the exception goes to the log only
ApiFailure(view, text) ==
    [status |-> 500, success |-> FALSE,
     error |-> IF view = "skills_api" THEN "Error retrieving skills"
               ELSE "Error retrieving projects"]

\* the page Django answers with when process_exception returns None and DEBUG is
\* on: the technical 500 page, which shows the exception
TechnicalPage(text) == [status |-> 500, page |-> "technical_500", exception |-> text]

\* ErrorHandlerMiddleware.process_exception(request, exception); api tells whether
\* request.path starts with /api/, json whether the content type is application/json
ProcessException(api, json, debug, text) ==
    IF api \/ json
    THEN [status |-> 500, success |-> FALSE, error |-> "Internal server error",
          message |-> IF debug THEN text
                      ELSE "An error occurred processing your request"]
    ELSE IF debug THEN TechnicalPage(text)
    ELSE [status |-> 500, page |-> "500.html",
          error_message |-> "Lo sentimos, ha ocurrido un error interno."]

\* the same request fails with one exception text and with another: both
\* responses are recorded
Failure(handler, debug, texts, bodies) ==
    Serve([view |-> "failure", handler |-> handler, debug |-> debug,
           texts |-> texts, bodies |-> bodies])

ContactFails ==
    \E debug \in BOOLEAN, a, b \in ExceptionTexts :
        Failure("contact_form", debug, <<a, b>>, <<ContactFailure(a), ContactFailure(b)>>)

ApiFails ==
    \E view \in {"skills_api", "projects_api"}, debug \in BOOLEAN, a, b \in ExceptionTexts :
        Failure(view, debug, <<a, b>>, <<ApiFailure(view, a), ApiFailure(view, b)>>)

\* an exception no view caught reaches the middleware; settings.DEBUG is True in
\* config/settings/development.py and False in config/settings/production.py
MiddlewareHandles ==
    \E api, json, debug \in BOOLEAN, a, b \in ExceptionTexts :
        Failure(IF api THEN "middleware_api" ELSE IF json THEN "middleware_json"
                ELSE "middleware_page",
                debug, <<a, b>>,
                <<ProcessException(api, json, debug, a),
                  ProcessException(api, json, debug, b)>>)

----------------------------------------------------------------------------
(* Specifications *)

InitCatalog ==
    /\ InitExperience
    /\ InitCategory
    /\ listing = NoListing
    /\ InitCache
    /\ InitRuns

Init == InitContact /\ InitSettings /\ InitSkill /\ InitProject /\ InitCatalog

Next == NextContact \/ NextSettings \/ NextSkill \/ NextProject

Spec == Init /\ [][Next]_vars

\* the contact endpoint alone
SpecContact == Init /\ [][NextContact]_vars

\* contact_form takes its own steps; nothing makes the mail backend answer the
\* blocking send_mail call
FairContact == SpecContact /\ WF_vars(ContactReceive) /\ WF_vars(ContactRespond)

\* the stores alone: no contact request in flight
QuietContact ==
    /\ req = [method |-> "GET", body |-> [kind |-> "invalid_json", fields |-> NoFields]]
    /\ pc = "done"
    /\ response = MethodNotAllowed
    /\ messages = <<>>
    /\ mailCalls = <<>>
    /\ mailOutcome = "none"

InitStores ==
    /\ QuietContact /\ InitSettings /\ InitSkill /\ InitProject /\ InitCatalog

SpecSettings == InitStores /\ [][NextSettings]_vars

SpecSkill == InitStores /\ [][NextSkill]_vars

SpecProject == InitStores /\ [][NextProject]_vars

SpecExperience == InitStores /\ [][NextExperience]_vars

\* Skills and ProjectCategories are created, renamed and deleted
NextNames ==
    \/ SkillAdd
    \/ SkillRename
    \/ SkillDelete
    \/ CategoryAdd
    \/ CategoryRename
    \/ CategoryDelete

SpecNames == InitStores /\ [][NextNames]_vars

\* Projects are filed under categories and linked to Skills; categories are deleted
NextCatalog ==
    \/ SkillAdd
    \/ CategoryAdd
    \/ ProjectAdd
    \/ CategoryDelete

SpecCatalog == InitStores /\ [][NextCatalog]_vars

\* Skills are published, then one listing of them is served
SkillPublish == SkillPublishWith(ListedSkillNames, BOOLEAN, DisplayOrders, {"language", "tool"})

SkillsApiBrowse ==
    SkillsApiWith({NoParam, IntParam(2)}, {NoParam, IntParam(1)},
                  {NoText(""), Text(""), Text("tool")})

NextSkillList ==
    \/ SkillPublish
    \/ FeaturedSkillsCall
    \/ Home
    \/ SkillsApiBrowse

SpecSkillList == InitStores /\ [][NextSkillList]_vars

\* Projects are published, then one listing of them is served
ProjectPublish == ProjectPublishWith(FALSE, {"completed"}, BOOLEAN, DisplayOrders)

ProjectsApiBrowse ==
    ProjectsApiWith({NoParam, IntParam(2)}, {NoParam, IntParam(1)},
                    {NoText(<<>>), Text(<<>>)}, {NoText(""), Text("")})

NextProjectList ==
    \/ ProjectPublish
    \/ FeaturedProjectsCall
    \/ Home
    \/ ProjectsApiBrowse

SpecProjectList == InitStores /\ [][NextProjectList]_vars

\* featured Skills and Projects are stored, then one page of a listing is requested
SkillList == SkillPublishWith(ListedSkillNames, {TRUE}, {0}, {"tool"})

ProjectList == ProjectPublishWith(FALSE, {"completed"}, {TRUE}, {0})

SkillsApiPaging == SkillsApiWith(PageInputs, SizeInputs, {NoText(""), Text("cloud")})

ProjectsApiPaging ==
    ProjectsApiWith(PageInputs, SizeInputs, {NoText(<<>>)}, {NoText(""), Text("archived")})

NextPaging ==
    \/ SkillList
    \/ ProjectList
    \/ SkillsApiPaging
    \/ ProjectsApiPaging

SpecPaging == InitStores /\ [][NextPaging]_vars

\* Projects are filed under categories, then projects_api is asked with filters
ProjectFile == ProjectPublishWith(TRUE, {"active", "completed"}, BOOLEAN, {0})

CategoryParams ==
    {NoText(<<>>), Text(<<>>), Text(<<"w", "E">>), Text(<<"P">>), Text(<<"e", "b", "x">>)}
StatusParams == {NoText(""), Text(""), Text("active"), Text("ACTIVE")}

ProjectsApiFilter ==
    ProjectsApiWith({NoParam}, {NoParam, IntParam(1)}, CategoryParams, StatusParams)

NextProjectFilter ==
    \/ CategoryOpen
    \/ ProjectFile
    \/ ProjectsApiFilter

SpecProjectFilter == InitStores /\ [][NextProjectFilter]_vars

\* Skills, then categories, then Projects are stored; the Projects are linked to
\* Skills, categories are deleted, and projects_api is asked
SkillTag ==
    /\ categories = {} /\ projects = {}
    /\ SkillPublishWith({"Python", "Docker"}, BOOLEAN, {0}, {"tool"})

CategoryFirst == projects = {} /\ CategoryOpen

CategoryClose == listing = NoListing /\ projects # {} /\ CategoryDelete

ProjectLink == listing = NoListing /\ categoryOp.op # "delete" /\ ProjectAdd

\* project.technologies.set(...) on the Project created last, with some of the
\* stored Skills
ProjectRelink ==
    /\ listing = NoListing
    /\ categoryOp.op # "delete"
    /\ \E r \in projects, t \in SUBSET {k.id : k \in skills} :
          /\ NextId(projects) = r.id + 1
          /\ t # r.technologies
          /\ projects' = (projects \ {r}) \cup {[r EXCEPT !.technologies = t]}
          /\ projectOp' = [op |-> "set_technologies", arg |-> r.id, error |-> "none"]
          /\ UNCHANGED <<contactVars, settingsVars, skillVars, experienceVars,
                         categoryVars, listingVars,
                   cacheVars, runVars>>

ProjectsApiPlain == ProjectsApiWith({NoParam}, {NoParam}, {NoText(<<>>)}, {NoText("")})

NextEmbed ==
    \/ SkillTag
    \/ CategoryFirst
    \/ CategoryClose
    \/ ProjectLink
    \/ ProjectRelink
    \/ ProjectsApiPlain

SpecEmbed == InitStores /\ [][NextEmbed]_vars

\* Skills or Projects are stored (a listing of one table does not read the other),
\* then one page of a listing is requested with a page size and filters
SkillShelf ==
    /\ projects = {}
    /\ SkillPublishWith(ListedSkillNames, BOOLEAN, DisplayOrders, {"language", "tool"})

ProjectShelf ==
    /\ skills = {}
    /\ ProjectPublishWith(FALSE, {"active", "completed"}, BOOLEAN, DisplayOrders)

PageNumbers == {IntParam(1), IntParam(2), IntParam(3)}
PageSizes == {IntParam(1), IntParam(2)}

SkillsApiPages == SkillsApiWith(PageNumbers, PageSizes, {NoText(""), Text("tool")})

ProjectsApiPages ==
    ProjectsApiWith(PageNumbers, PageSizes, {NoText(<<>>)}, {NoText(""), Text("active")})

NextPages ==
    \/ SkillShelf
    \/ ProjectShelf
    \/ SkillsApiPages
    \/ ProjectsApiPages

SpecPages == InitStores /\ [][NextPages]_vars

\* the first Skill and the first Project are stored
SkillFirst == skills = {} /\ SkillAdd

ProjectFirst == projects = {} /\ ProjectAdd

\* the store is written while the views are served through the cache
NextCache ==
    \/ CachedHome
    \/ CachedSkillsApi
    \/ CachedProjectsApi
    \/ Tick
    \/ SettingsRename
    \/ SkillFirst
    \/ ProjectFirst

SpecCache == InitStores /\ [][NextCache]_vars

\* get_settings() calls run side by side while the administrator edits the row
NextCallers ==
    \/ CallerStart
    \/ CallerGet
    \/ CallerCreate
    \/ CallerGetAgain
    \/ SettingsRename

SpecCallers == InitStores /\ [][NextCallers]_vars

\* Project.objects.create(title=) with a title of projects_data or another one
ProjectTitled ==
    /\ Cardinality(projects) < MaxProjects
    /\ \E t \in {"To-Do App", "Portfolio Web"} :
          ProjectApply("create", [NewProject(None, None) EXCEPT !.title = t])

\* the administrator fills the store, then the command is run again and again
SkillBefore == seedOp.n = 0 /\ skills = {} /\ SkillAdd

CategoryBefore == seedOp.n = 0 /\ categories = {} /\ CategoryAdd

ProjectBefore == seedOp.n = 0 /\ ProjectTitled

SettingsBefore == seedOp.n = 0 /\ GetSettings

NextSeed ==
    \/ SkillBefore
    \/ CategoryBefore
    \/ ProjectBefore
    \/ SettingsBefore
    \/ SeedRun

SpecSeed == InitStores /\ [][NextSeed]_vars

\* the administrator edits seeded rows between the runs: the level of the Skill
\* "Python" is changed, the Skill "CSS" or the category "Web Application" is deleted,
\* the technologies of "Gestor de Tareas" are cleared, the Settings row is edited, a
\* Project is added
PythonSetLevel ==
    /\ seedOp.n < MaxRuns
    /\ \E r \in skills, l \in {MinProficiency, MaxProficiency} :
          /\ r.name = "Python"
          /\ l # r.proficiency_level
          /\ SkillApply("update", [r EXCEPT !.proficiency_level = l])

CssDelete ==
    /\ seedOp.n < MaxRuns
    /\ \E r \in skills :
          /\ r.name = "CSS"
          /\ skills' = skills \ {r}
          /\ skillOp' = [op |-> "delete", arg |-> r, error |-> "none"]
          /\ projects' = Unlink(projects, r)
          /\ UNCHANGED <<contactVars, settingsVars, projectOp, experienceVars,
                         categoryVars, listingVars, cacheVars, runVars>>

WebDelete ==
    /\ seedOp.n < MaxRuns
    /\ \E r \in categories :
          /\ r.name = WebApplication
          /\ categories' = categories \ {r}
          /\ categoryOp' = [op |-> "delete", arg |-> r, error |-> "none"]
          /\ projects' = SetNull(projects, r)
          /\ UNCHANGED <<contactVars, settingsVars, skillVars, projectOp,
                         experienceVars, listingVars, cacheVars, runVars>>

GestorClear ==
    /\ seedOp.n < MaxRuns
    /\ \E r \in projects :
          /\ r.title = "Gestor de Tareas"
          /\ r.technologies # {}
          /\ projects' = (projects \ {r}) \cup {[r EXCEPT !.technologies = {}]}
          /\ projectOp' = [op |-> "set_technologies", arg |-> r.id, error |-> "none"]
          /\ UNCHANGED <<contactVars, settingsVars, skillVars, experienceVars,
                         categoryVars, listingVars, cacheVars, runVars>>

SettingsBetween == seedOp.n < MaxRuns /\ SettingsRename

ProjectBetween == seedOp.n < MaxRuns /\ ProjectTitled

NextReseed ==
    \/ SeedRun
    \/ PythonSetLevel
    \/ CssDelete
    \/ WebDelete
    \/ GestorClear
    \/ SettingsBetween
    \/ ProjectBetween

SpecReseed == InitStores /\ [][NextReseed]_vars

\* runs of the command side by side on an empty store, then one more run
NextRuns ==
    \/ TxnBegin
    \/ TxnGet
    \/ TxnClean
    \/ TxnInsert
    \/ TxnWaitEnd
    \/ TxnBusy
    \/ TxnGetAgain
    \/ TxnCommit
    \/ LaterRun

SpecRuns == InitStores /\ [][NextRuns]_vars

\* a request ends in an unexpected failure
NextFailure ==
    \/ ContactFails
    \/ ApiFails
    \/ MiddlewareHandles

SpecFailure == InitStores /\ [][NextFailure]_vars

\* rows of one table are created and updated; each save() validates against its
\* own table, so a behaviour works on one table
SkillEdits ==
    /\ categoryOp.op = "none" /\ projectOp.op = "none"
    /\ (SkillAdd \/ SkillRename \/ SkillSetLevel \/ SkillSetCategory)

CategoryEdits ==
    /\ skillOp.op = "none" /\ projectOp.op = "none"
    /\ (CategoryCreate \/ CategoryUpdate)

ProjectEdits ==
    /\ skillOp.op = "none" /\ categoryOp.op = "none"
    /\ (ProjectCreate \/ ProjectUpdate \/ ProjectSetStatus)

NextEdits ==
    \/ SkillEdits
    \/ CategoryEdits
    \/ ProjectEdits

SpecEdits == InitStores /\ [][NextEdits]_vars

----------------------------------------------------------------------------
(* Contact intake: C1 - C5 *)

FieldNames == {"name", "email", "subject", "message"}

\* a POST whose body is a JSON object in which every field that is present is a string
WellFormed(r) ==
    /\ r.method = "POST"
    /\ r.body.kind = "object"
    /\ \A k \in FieldNames : r.body.fields[k].t \in {"absent", "str"}

\* the field is present and not empty once its whitespace is trimmed
Filled(r, k) == r.body.fields[k].t = "str" /\ Strip(r.body.fields[k].v) # <<>>

\* a submission as C1 describes it
ValidSubmission(r) ==
    /\ WellFormed(r)
    /\ \A k \in FieldNames : Filled(r, k)
    /\ Contains(r.body.fields.email.v, "@")
    /\ Contains(r.body.fields.email.v, ".")

\* a submission as C2 describes it
InvalidSubmission(r) ==
    /\ WellFormed(r)
    /\ \/ \E k \in FieldNames : ~Filled(r, k)
       \/ ~Contains(r.body.fields.email.v, "@")
       \/ ~Contains(r.body.fields.email.v, ".")

\* the stored table keeps every row it had
MessagesKept ==
    /\ Len(messages') >= Len(messages)
    /\ \A i \in 1..Len(messages) : messages'[i] = messages[i]

\* the step stores exactly one new message, the trimmed fields with is_read false
OneMessageAdded(r) ==
    /\ Len(messages') = Len(messages) + 1
    /\ MessagesKept
    /\ LET m == messages'[Len(messages')]
       IN  /\ \A k \in FieldNames : m[k] = Strip(r.body.fields[k].v)
           /\ m.is_read = FALSE

\* C1: a submission whose four fields are non-empty after trimming and whose email
\* holds "@" and "." stores exactly one new ContactMessage with the trimmed values
\* and is_read false, and the response it gets is HTTP 200 with success true.
C1_ValidSubmissionStored ==
    /\ [][(pc = "idle" /\ pc' # "idle" /\ ValidSubmission(req)) => OneMessageAdded(req)]_vars
    /\ []((pc = "done" /\ ValidSubmission(req)) =>
            (response.status = 200 /\ response.success /\ messages # <<>>))

\* a padded email was stored trimmed and answered with success
C1_Witness ==
    /\ pc = "done"
    /\ ValidSubmission(req)
    /\ response = Sent
    /\ Len(messages) = 1
    /\ messages[1].email # req.body.fields.email.v
    /\ messages[1].name # req.body.fields.name.v

\* C2: a submission with a field missing or empty after trimming, or with an email
\* lacking "@" or lacking ".", is answered HTTP 400 with success false, stores no
\* ContactMessage and calls send_mail for none.  (The submissions are the payloads
\* whose fields are strings; C4 covers the others.)
C2_InvalidSubmissionRejected ==
    /\ [][(pc = "idle" /\ pc' # "idle" /\ InvalidSubmission(req)) =>
            (/\ messages' = messages
             /\ mailCalls' = mailCalls
             /\ pc' = "done"
             /\ response'.status = 400
             /\ response'.success = FALSE)]_vars
    /\ [](InvalidSubmission(req) => (messages = <<>> /\ mailCalls = <<>>))

\* an email with "@" and without "." was rejected
C2_Witness ==
    /\ pc = "done"
    /\ InvalidSubmission(req)
    /\ \A k \in FieldNames : Filled(req, k)
    /\ Contains(req.body.fields.email.v, "@")
    /\ response = InvalidEmail
    /\ messages = <<>>

\* C3: when send_mail raises after the ContactMessage was stored, the message stays
\* stored and the caller gets HTTP 200 with success true.
C3_MailFailureSuppressed ==
    /\ [][MessagesKept]_vars
    /\ []((pc = "done" /\ mailOutcome = "error") =>
            (/\ response.status = 200
             /\ response.success
             /\ Len(messages) = Len(mailCalls)
             /\ messages[Len(messages)].email = Strip(req.body.fields.email.v)))

\* send_mail raised, the response was returned and the message is stored
C3_Witness ==
    /\ pc = "done"
    /\ mailOutcome = "error"
    /\ response = Sent
    /\ Len(messages) = 1

\* a payload that cannot be parsed as the four string fields
Malformed(r) ==
    /\ r.method = "POST"
    /\ \/ r.body.kind \in {"invalid_json", "non_object"}
       \/ \E k \in FieldNames : r.body.fields[k].t = "other"

\* C4: a payload that is not valid JSON, is no JSON object or holds a field that is
\* no string is answered with the MalformedRequest outcome (HTTP 400, success false,
\* not one of the two validation messages) and stores no ContactMessage.
C4_MalformedRejected ==
    (pc = "done" /\ Malformed(req)) =>
        /\ response.status = 400
        /\ response.success = FALSE
        /\ response \notin {FieldsRequired, InvalidEmail}
        /\ messages = <<>>

\* C5: once the ContactMessage is stored, the success response is eventually
\* returned, whether send_mail returns, raises or never returns.
C5_ResponseNotDelayed == (pc = "send_mail") ~> (pc = "done" /\ response = Sent)

----------------------------------------------------------------------------
(* Settings singleton: C6, C7 *)

DefaultRow ==
    [pk |-> SingletonPk, site_title |-> DefaultTitle, github_username |-> DefaultUser]

\* C6: after any sequence of get_settings(), save() and create() calls at most one
\* Settings row exists and its identifier is 1; every get_settings() call returns
\* the stored row, identifier 1, and the one that finds no row creates it with the
\* default values.
C6_SettingsSingleton ==
    /\ [](/\ Cardinality(settingsRows) <= 1
          /\ \A r \in settingsRows : r.pk = 1
          /\ settingsOp.op = "get_settings" =>
                (/\ settingsOp.error = "none"
                 /\ settingsOp.ret.pk = 1
                 /\ settingsOp.ret \in settingsRows))
    /\ [][(settingsRows = {} /\ settingsOp'.op = "get_settings") =>
            settingsRows' = {DefaultRow}]_vars

\* get_settings() returned the row an earlier save() stored
C6_Witness ==
    /\ settingsOp.op = "get_settings"
    /\ settingsOp.ret.site_title # DefaultTitle
    /\ settingsRows = {settingsOp.ret}

\* C7 as stated: "create settings" on an existing row (save() of a new instance,
\* objects.create()) raises no error, returns the existing row and leaves its stored
\* values unchanged.
C7_CreateIsIdempotent ==
    [][(settingsRows # {} /\ settingsOp'.op \in {"save_new", "create"}) =>
        (/\ settingsOp'.error = "none"
         /\ settingsOp'.ret \in settingsRows
         /\ settingsRows' = settingsRows)]_vars

\* C7 as amended: on an existing row no "create settings" call adds a row.
\* get_settings() raises no error, returns the existing row and leaves it unchanged;
\* save() of a new instance raises no error and replaces the stored values by the
\* instance's; objects.create() raises IntegrityError and leaves the row unchanged.
C7_CreateOnExistingRow ==
    [][settingsRows # {} =>
        /\ settingsOp'.op = "get_settings" =>
              (/\ settingsOp'.error = "none"
               /\ settingsOp'.ret \in settingsRows
               /\ settingsRows' = settingsRows)
        /\ settingsOp'.op = "save_new" =>
              (/\ settingsOp'.error = "none"
               /\ settingsOp'.ret = [settingsOp'.arg EXCEPT !.pk = 1]
               /\ settingsRows' = {settingsOp'.ret})
        /\ settingsOp'.op = "create" =>
              (/\ settingsOp'.error = "IntegrityError"
               /\ settingsRows' = settingsRows)]_vars

\* objects.create() was refused on a row holding other values
C7_Witness ==
    /\ settingsOp.op = "create"
    /\ settingsOp.error = "IntegrityError"
    /\ \E r \in settingsRows : r.site_title # settingsOp.arg.site_title

----------------------------------------------------------------------------
(* Skill and Project validation: C8 - C10 *)

\* no other stored Skill holds the name of the instance being saved
NameFree(inst) == \A r \in skills : r.name = inst.name => r.id = inst.id

\* C8: every stored Skill has 1 <= proficiency_level <= 4; a create or update with
\* a proficiency_level outside 1..4 fails with a validation error and stores nothing.
C8_ProficiencyRange ==
    /\ [](\A r \in skills : 1 <= r.proficiency_level /\ r.proficiency_level <= 4)
    /\ [][(skillOp'.arg.proficiency_level < 1 \/ skillOp'.arg.proficiency_level > 4) =>
            (skills' = skills /\ skillOp'.error = "ValidationError")]_vars

\* an update to level 5 of a stored Skill was refused
C8_Witness ==
    /\ skillOp.op = "update"
    /\ skillOp.arg.proficiency_level = 5
    /\ skillOp.arg.years_experience = None
    /\ skillOp.error = "ValidationError"
    /\ \E r \in skills : r.id = skillOp.arg.id /\ r.name = skillOp.arg.name

\* C9: every stored Skill has years_experience absent or in 0..50; a create or
\* update with 51 or more, or a negative number, fails with a validation error and
\* stores nothing; 0 and 50 are accepted.
C9_YearsRange ==
    /\ [](\A r \in skills :
            IsSet(r.years_experience) =>
                (0 <= Val(r.years_experience) /\ Val(r.years_experience) <= 50))
    /\ [][(/\ IsSet(skillOp'.arg.years_experience)
           /\ \/ Val(skillOp'.arg.years_experience) >= 51
              \/ Val(skillOp'.arg.years_experience) < 0) =>
            (skills' = skills /\ skillOp'.error = "ValidationError")]_vars
    /\ [][(/\ skillOp'.arg.years_experience \in {Some(0), Some(50)}
           /\ skillOp'.arg.proficiency_level \in 1..4
           /\ NameFree(skillOp'.arg)) =>
            (/\ skillOp'.error = "none"
             /\ \E r \in skills' :
                    /\ r.name = skillOp'.arg.name
                    /\ r.years_experience = skillOp'.arg.years_experience)]_vars

\* 50 years are stored and a change to 51 was refused
C9_Witness ==
    /\ skillOp.arg.years_experience = Some(51)
    /\ skillOp.arg.proficiency_level = 4
    /\ skillOp.error = "ValidationError"
    /\ \E r \in skills : r.id = skillOp.arg.id /\ r.years_experience = Some(50)
    /\ \E r \in skills : r.years_experience = Some(0)

\* C10: every stored Project with both dates has end_date >= start_date; a create
\* or update with end_date before start_date fails with a validation error and
\* stores nothing; a Project with either date absent is accepted.
C10_ProjectDates ==
    /\ [](\A r \in projects :
            (IsSet(r.start_date) /\ IsSet(r.end_date)) =>
                Val(r.end_date) >= Val(r.start_date))
    /\ [][(/\ IsSet(projectOp'.arg.start_date)
           /\ IsSet(projectOp'.arg.end_date)
           /\ Val(projectOp'.arg.end_date) < Val(projectOp'.arg.start_date)) =>
            (projects' = projects /\ projectOp'.error = "ValidationError")]_vars
    /\ [][(\/ ~IsSet(projectOp'.arg.start_date)
           \/ ~IsSet(projectOp'.arg.end_date)) =>
            (/\ projectOp'.error = "none"
             /\ \E r \in projects' :
                    /\ r.start_date = projectOp'.arg.start_date
                    /\ r.end_date = projectOp'.arg.end_date)]_vars

\* a stored Project keeps its dates after an update to an end before its start was
\* refused, beside a Project stored without an end date
C10_Witness ==
    /\ projectOp.op = "update"
    /\ projectOp.error = "ValidationError"
    /\ \E r \in projects :
          /\ r.id = projectOp.arg.id
          /\ IsSet(r.start_date) /\ IsSet(r.end_date)
    /\ \E r \in projects : IsSet(r.start_date) /\ ~IsSet(r.end_date)

----------------------------------------------------------------------------
(* Experience validation: C11, C12 *)

\* the two rules of an Experience
ExperienceRules(r) ==
    /\ (IsSet(r.end_date) /\ IsSet(r.start_date)) => Val(r.end_date) >= Val(r.start_date)
    /\ r.is_current => ~IsSet(r.end_date)

\* C11: after any create or update of an Experience every stored Experience has
\* end_date >= start_date when end_date is present and no end_date when is_current
\* is true; a create or update that breaks either rule fails with a validation
\* error and stores nothing.
C11_ExperienceRules ==
    [][/\ \A r \in experiences' : ExperienceRules(r)
       /\ (/\ experienceOp'.op \in {"create", "update", "admin_add"}
           /\ ~ExperienceRules(experienceOp'.arg)) =>
             (experiences' = experiences /\ experienceOp'.error = "ValidationError")]_vars

\* the start date is given and the rules leave the instance alone
RulesSatisfied(inst) ==
    /\ IsSet(inst.start_date)
    /\ \/ ~IsSet(inst.end_date)
       \/ (Val(inst.end_date) >= Val(inst.start_date) /\ ~inst.is_current)

\* C12: full_clean() of an Experience fails with a validation error whenever
\* end_date is earlier than start_date and whenever is_current is true while
\* end_date is present; with a start_date it passes when end_date is absent and
\* when end_date >= start_date and is_current is false.
C12_ExperienceFullClean ==
    experienceOp.op = "full_clean" =>
        /\ (/\ IsSet(experienceOp.arg.end_date)
            /\ IsSet(experienceOp.arg.start_date)
            /\ Val(experienceOp.arg.end_date) < Val(experienceOp.arg.start_date)) =>
              experienceOp.error = "ValidationError"
        /\ (experienceOp.arg.is_current /\ IsSet(experienceOp.arg.end_date)) =>
              experienceOp.error = "ValidationError"
        /\ RulesSatisfied(experienceOp.arg) => experienceOp.error = "none"

\* a current Experience with an end date after its start was refused
C12_Witness ==
    /\ experienceOp.op = "full_clean"
    /\ experienceOp.arg.is_current
    /\ IsSet(experienceOp.arg.start_date)
    /\ IsSet(experienceOp.arg.end_date)
    /\ Val(experienceOp.arg.end_date) > Val(experienceOp.arg.start_date)
    /\ experienceOp.error = "ValidationError"

----------------------------------------------------------------------------
(* Unique names: C13 *)

\* another stored row holds the name of the instance
NameTaken(rows, inst) == \E r \in rows : r.name = inst.name /\ r.id # inst.id

NamesDistinct(rows) == \A a, b \in rows : a.name = b.name => a = b

\* C13: after any creates, renames and deletes no two stored Skills share a name and
\* no two stored ProjectCategories share a name; a create or rename to a name that
\* another row holds fails and leaves the store unchanged.
C13_UniqueNames ==
    /\ [](NamesDistinct(skills) /\ NamesDistinct(categories))
    /\ [][(/\ skillOp' # skillOp
           /\ skillOp'.op \in {"create", "update"}
           /\ NameTaken(skills, skillOp'.arg)) =>
            (/\ skillOp'.error # "none"
             /\ skills' = skills
             /\ categories' = categories)]_vars
    /\ [][(/\ categoryOp' # categoryOp
           /\ categoryOp'.op \in {"create", "update"}
           /\ NameTaken(categories, categoryOp'.arg)) =>
            (/\ categoryOp'.error # "none"
             /\ categories' = categories
             /\ skills' = skills)]_vars

\* after a delete and a new create, a rename of a Skill to the other Skill's name
\* and the create of a second ProjectCategory of a stored name were both refused
C13_Witness ==
    /\ skillOp.op = "update"
    /\ skillOp.error = "ValidationError"
    /\ Cardinality(skills) = 2
    /\ \E r \in skills : r.id = 3
    /\ categoryOp.op = "create"
    /\ categoryOp.error = "ValidationError"
    /\ Cardinality(categories) = 1

----------------------------------------------------------------------------
(* Refused updates: C14 *)

\* the instance breaks a constraint of Skill: the ranges of proficiency_level and
\* years_experience, the category choices, the unique name
SkillViolation(inst) ==
    \/ inst.proficiency_level < 1 \/ inst.proficiency_level > 4
    \/ /\ IsSet(inst.years_experience)
       /\ (Val(inst.years_experience) < 0 \/ Val(inst.years_experience) > 50)
    \/ inst.category \notin {"language", "framework", "database", "tool", "cloud"}
    \/ NameTaken(skills, inst)

\* the instance breaks a constraint of ProjectCategory: the hex colour, the unique name
CategoryViolation(inst) ==
    \/ ~IsHexColor(inst.color)
    \/ NameTaken(categories, inst)

\* the instance breaks a constraint of Project: the status choices, the date order
ProjectViolation(inst) ==
    \/ inst.status \notin {"active", "completed", "archived", "in_progress"}
    \/ /\ IsSet(inst.start_date) /\ IsSet(inst.end_date)
       /\ Val(inst.end_date) < Val(inst.start_date)

\* C14: an update of a stored Skill, ProjectCategory or Project that breaks a field
\* constraint (range, choices, hex colour, unique name, date order) fails with a
\* validation error and leaves the table, so the stored row, exactly as it was.
C14_RefusedUpdateWritesNothing ==
    /\ [][(skillOp' # skillOp /\ skillOp'.op = "update" /\ SkillViolation(skillOp'.arg)) =>
            (skillOp'.error = "ValidationError" /\ skills' = skills)]_vars
    /\ [][(/\ categoryOp' # categoryOp
           /\ categoryOp'.op = "update"
           /\ CategoryViolation(categoryOp'.arg)) =>
            (categoryOp'.error = "ValidationError" /\ categories' = categories)]_vars
    /\ [][(/\ projectOp' # projectOp
           /\ projectOp'.op = "update"
           /\ ProjectViolation(projectOp'.arg)) =>
            (projectOp'.error = "ValidationError" /\ projects' = projects)]_vars

\* the update of a stored ProjectCategory to a new name and a colour with a
\* character that is no hex digit was refused, and the row keeps its name and colour
C14_Witness ==
    /\ categoryOp.op = "update"
    /\ categoryOp.error = "ValidationError"
    /\ categoryOp.arg.color = <<"#", "3", "B", "8", "2", "F", "G">>
    /\ \E r \in categories :
          /\ r.id = categoryOp.arg.id
          /\ r.name # categoryOp.arg.name
          /\ r.color = <<"#", "f", "f", "0", "0", "a", "9">>
    /\ \A r \in categories : r.name # categoryOp.arg.name

----------------------------------------------------------------------------
(* Category deletion: C15 *)

\* C15: deleting a ProjectCategory deletes no Project: a Project that referenced it
\* stays stored with no category and with its other fields and its technologies as
\* they were; a Project of another category, or of none, is left as it was.
C15_DeleteKeepsProjects ==
    [][(categoryOp' # categoryOp /\ categoryOp'.op = "delete") =>
        /\ {p.id : p \in projects'} = {p.id : p \in projects}
        /\ Cardinality(projects') = Cardinality(projects)
        /\ \A p \in projects :
              \E q \in projects' :
                  /\ q.id = p.id
                  /\ [q EXCEPT !.category = None] = [p EXCEPT !.category = None]
                  /\ q.category = IF p.category = Some(categoryOp'.arg.id)
                                  THEN None ELSE p.category
        /\ skills' = skills
        /\ categories' = categories \ {categoryOp'.arg}]_vars

\* the category of the Project created last was deleted: the Project is stored
\* without a category and with its technologies, beside a Project of another category
C15_Witness ==
    /\ categoryOp.op = "delete"
    /\ projectOp.op = "create"
    /\ projectOp.error = "none"
    /\ projectOp.arg.category = Some(categoryOp.arg.id)
    /\ projectOp.arg.technologies # {}
    /\ \A c \in categories : c.id # categoryOp.arg.id
    /\ \E p \in projects :
          /\ p.id = 2
          /\ p.category = None
          /\ p.technologies = projectOp.arg.technologies
    /\ \E p \in projects : p.id = 1 /\ IsSet(p.category)

----------------------------------------------------------------------------
(* Featured skills: C16 *)

\* a comes before b: the smaller display_order, on a tie the smaller name
SkillComesFirst(a, b) ==
    \/ a.display_order < b.display_order
    \/ /\ a.display_order = b.display_order
       /\ LexLess(NameKey(a.name), NameKey(b.name))

\* the sequences that hold every featured Skill once, and nothing else, in order
FeaturedSkillLists ==
    LET featured == {r \in skills : r.is_featured}
        n == Cardinality(featured)
    IN  {l \in [1..n -> featured] :
            /\ \A r \in featured : \E i \in 1..n : l[i] = r
            /\ \A i, j \in 1..n : i < j => SkillComesFirst(l[i], l[j])}

NamesOf(items) == [i \in 1..Len(items) |-> items[i].name]

\* the page size a request is served with
SizeOf(size) == IF size.t = "absent" THEN DefaultPageSize ELSE size.v

Min(a, b) == IF a <= b THEN a ELSE b

\* the part of the list that page number pg of the given size holds
PageSlice(l, pg, size) == SubSeq(l, (pg - 1) * size + 1, Min(pg * size, Len(l)))

\* C16 as stated: get_featured_skills(), the skills of home and skills_api without a
\* category filter hold exactly the Skills with is_featured true, ordered by
\* display_order and then by name.
C16_FeaturedSkillsEverywhere ==
    /\ listing.view = "get_featured_skills" => listing.items \in FeaturedSkillLists
    /\ listing.view = "home" =>
          \E l \in FeaturedSkillLists : NamesOf(listing.skills) = NamesOf(l)
    /\ (listing.view = "skills_api" /\ ~Given(listing.category, "")) =>
          /\ listing.resp.status = 200
          /\ \E l \in FeaturedSkillLists : NamesOf(listing.resp.items) = NamesOf(l)

\* C16 as amended: get_featured_skills() and the skills of home hold exactly the
\* featured Skills in that order; a successful skills_api response without a
\* category filter holds the page pagination.page of that list, page_size items
\* to a page, and counts the whole list in total_items.
C16_FeaturedSkillsPaged ==
    /\ listing.view = "get_featured_skills" => listing.items \in FeaturedSkillLists
    /\ listing.view = "home" =>
          \E l \in FeaturedSkillLists : NamesOf(listing.skills) = NamesOf(l)
    /\ (/\ listing.view = "skills_api"
        /\ ~Given(listing.category, "")
        /\ listing.resp.status = 200) =>
          \E l \in FeaturedSkillLists :
              /\ NamesOf(listing.resp.items) =
                    NamesOf(PageSlice(l, listing.resp.pagination.page,
                                      SizeOf(listing.size)))
              /\ listing.resp.pagination.total_items = Len(l)

\* page 2 of size 1 holds "Docker", second by name of two featured Skills of equal
\* display_order, while a third Skill is not featured
C16_Witness ==
    /\ listing.view = "skills_api"
    /\ listing.category = NoText("")
    /\ listing.page = IntParam(2)
    /\ listing.size = IntParam(1)
    /\ listing.resp.status = 200
    /\ NamesOf(listing.resp.items) = <<"Docker">>
    /\ \E a, b, c \in skills :
          /\ a.name = "Django" /\ a.is_featured
          /\ b.name = "Docker" /\ b.is_featured /\ b.display_order = a.display_order
          /\ c.name = "Python" /\ ~c.is_featured /\ c.display_order < a.display_order

----------------------------------------------------------------------------
(* Featured projects: C17 *)

\* a comes before b: the smaller display_order, on a tie the later created_at
ProjectComesFirst(a, b) ==
    \/ a.display_order < b.display_order
    \/ /\ a.display_order = b.display_order
       /\ a.created_at > b.created_at

\* the sequences that hold every featured Project once, and nothing else, in order
FeaturedProjectLists ==
    LET featured == {r \in projects : r.is_featured}
        n == Cardinality(featured)
    IN  {l \in [1..n -> featured] :
            /\ \A r \in featured : \E i \in 1..n : l[i] = r
            /\ \A i, j \in 1..n : i < j => ~ProjectComesFirst(l[j], l[i])}

TitlesOf(items) == [i \in 1..Len(items) |-> items[i].title]
IdsOf(items) == [i \in 1..Len(items) |-> items[i].id]

NoFilters ==
    /\ ~Given(listing.category, <<>>)
    /\ ~Given(listing.status, "")

\* C17 as stated: get_featured_projects(), the projects of home and projects_api
\* without filters hold exactly the Projects with is_featured true, ordered by
\* display_order and, on equal display_order, the most recently created first.
C17_FeaturedProjectsEverywhere ==
    /\ listing.view = "get_featured_projects" => listing.items \in FeaturedProjectLists
    /\ listing.view = "home" =>
          \E l \in FeaturedProjectLists : TitlesOf(listing.projects) = TitlesOf(l)
    /\ (listing.view = "projects_api" /\ NoFilters) =>
          /\ listing.resp.status = 200
          /\ \E l \in FeaturedProjectLists : IdsOf(listing.resp.items) = IdsOf(l)

\* C17 as amended: get_featured_projects() and the projects of home hold exactly
\* the featured Projects in that order; a successful projects_api response without
\* filters holds the page pagination.page of that list, page_size items to a page,
\* and counts the whole list in total_items.
C17_FeaturedProjectsPaged ==
    /\ listing.view = "get_featured_projects" => listing.items \in FeaturedProjectLists
    /\ listing.view = "home" =>
          \E l \in FeaturedProjectLists : TitlesOf(listing.projects) = TitlesOf(l)
    /\ (listing.view = "projects_api" /\ NoFilters /\ listing.resp.status = 200) =>
          \E l \in FeaturedProjectLists :
              /\ IdsOf(listing.resp.items) =
                    IdsOf(PageSlice(l, listing.resp.pagination.page,
                                    SizeOf(listing.size)))
              /\ listing.resp.pagination.total_items = Len(l)

\* of two featured Projects of equal display_order home lists the one created last
\* first
C17_Witness ==
    /\ listing.view = "home"
    /\ Len(listing.projects) = 2
    /\ listing.projects[1].title = "Task API"
    /\ listing.projects[2].title = "Portfolio Web"
    /\ \E a, b \in projects :
          /\ a.title = "Portfolio Web" /\ b.title = "Task API"
          /\ a.created_at < b.created_at
          /\ a.display_order = b.display_order

----------------------------------------------------------------------------
(* Pagination: C18, C19 *)

ApiViews == {"skills_api", "projects_api"}

\* how many rows the filters of the request select
Matching ==
    IF listing.view = "skills_api"
    THEN Cardinality({r \in skills :
            /\ r.is_featured
            /\ Given(listing.category, "") => r.category = listing.category.v})
    ELSE Cardinality({r \in projects :
            /\ r.is_featured
            /\ ~Given(listing.category, <<>>)
            /\ Given(listing.status, "") => r.status = listing.status.v})

\* the page size is left out or is a positive number
SizeUsable == listing.size.t = "absent" \/ (listing.size.t = "int" /\ listing.size.v >= 1)

\* the number of the last page: the least n >= 1 with n pages holding every row
LastPage ==
    CHOOSE n \in 1..(Matching + 1) :
        /\ n * SizeOf(listing.size) >= Matching
        /\ n = 1 \/ (n - 1) * SizeOf(listing.size) < Matching

\* C18: in skills_api and projects_api (requests with a usable page_size; C19 is
\* about the others) a page token that is no integer yields page 1, an integer
\* beyond the last page yields the last page, with pagination.page equal to
\* pagination.total_pages, and an empty filtered result yields page 1 with no items.
C18_PageClamped ==
    (listing.view \in ApiViews /\ SizeUsable) =>
        /\ listing.page.t = "text" =>
              (listing.resp.status = 200 /\ listing.resp.pagination.page = 1)
        /\ (listing.page.t = "int" /\ listing.page.v > LastPage) =>
              /\ listing.resp.status = 200
              /\ listing.resp.pagination.page = LastPage
              /\ listing.resp.pagination.page = listing.resp.pagination.total_pages
        /\ Matching = 0 =>
              /\ listing.resp.status = 200
              /\ listing.resp.pagination.page = 1
              /\ listing.resp.items = <<>>

\* page 9999 of two Projects, one to a page, returned page 2 of 2
C18_Witness ==
    /\ listing.view = "projects_api"
    /\ listing.page = IntParam(9999)
    /\ listing.size = IntParam(1)
    /\ Matching = 2
    /\ listing.resp.status = 200
    /\ listing.resp.pagination.page = 2
    /\ listing.resp.pagination.total_pages = 2
    /\ IdsOf(listing.resp.items) = <<1>>

\* C19: skills_api and projects_api answer every page and page_size, a non-integer,
\* zero or negative page and a non-integer, zero or negative page_size included,
\* with a successful listing (success true) and never with HTTP 500.
C19_ListingNeverFails ==
    listing.view \in ApiViews =>
        (listing.resp.status = 200 /\ listing.resp.success)

----------------------------------------------------------------------------
(* Project filters: C20 *)

\* the letters of the category names in their two cases
CasePairs ==
    {<<"W", "w">>, <<"E", "e">>, <<"B", "b">>, <<"A", "a">>, <<"P", "p">>, <<"I", "i">>}

SameLetter(a, b) == a = b \/ <<a, b>> \in CasePairs \/ <<b, a>> \in CasePairs

\* text occurs in name when the case of letters is ignored
OccursIn(text, name) ==
    \E at \in 0..(Len(name) - Len(text)) :
        \A k \in 1..Len(text) : SameLetter(name[at + k], text[k])

\* the Project is one the filters of the request ask for
Wanted(p) ==
    /\ p.is_featured
    /\ Given(listing.category, <<>>) =>
          \E c \in categories : p.category = Some(c.id) /\ OccursIn(listing.category.v, c.name)
    /\ Given(listing.status, "") => p.status = listing.status.v

\* the sequences that hold every wanted Project once, and nothing else, in the
\* order of the listing
WantedLists ==
    LET wanted == {p \in projects : Wanted(p)}
        n == Cardinality(wanted)
    IN  {l \in [1..n -> wanted] :
            /\ \A r \in wanted : \E i \in 1..n : l[i] = r
            /\ \A i, j \in 1..n : i < j => ~ProjectComesFirst(l[j], l[i])}

\* C20 as stated: projects_api returns exactly the featured Projects whose category
\* name holds the category parameter, case ignored, and whose status equals the
\* status parameter; an absent or empty parameter filters nothing.
C20_FiltersSelectExactly ==
    listing.view = "projects_api" =>
        /\ listing.resp.status = 200
        /\ {listing.resp.items[i].id : i \in 1..Len(listing.resp.items)} =
              {p.id : p \in {q \in projects : Wanted(q)}}

\* C20 as amended: a successful projects_api response holds the page
\* pagination.page, page_size items to a page, of the ordered list of those
\* Projects, and counts them all in total_items.
C20_FiltersSelectPaged ==
    (listing.view = "projects_api" /\ listing.resp.status = 200) =>
        \E l \in WantedLists :
            /\ IdsOf(listing.resp.items) =
                  IdsOf(PageSlice(l, listing.resp.pagination.page, SizeOf(listing.size)))
            /\ listing.resp.pagination.total_items = Len(l)

\* category "wE" and status "active" select the active Project of category "Web"
\* and not the active Project without a category
C20_Witness ==
    /\ listing.view = "projects_api"
    /\ listing.category = Text(<<"w", "E">>)
    /\ listing.status = Text("active")
    /\ listing.size = NoParam
    /\ IdsOf(listing.resp.items) = <<1>>
    /\ \E p, q \in projects, c \in categories :
          /\ p.id = 1 /\ p.category = Some(c.id) /\ c.name = <<"W", "e", "b">>
          /\ q.id = 2 /\ q.category = None /\ q.status = "active" /\ q.is_featured

----------------------------------------------------------------------------
(* Embedded category and technologies: C21 *)

\* the stored Project a record of the response was made from
ProjectOf(item) == CHOOSE p \in projects : p.id = item.id

\* C21: every record of a projects_api response carries the name and color of the
\* category its Project points to now, or none when it points to none, and the
\* names of exactly the Skills linked to the Project, featured or not, each once.
C21_EmbedsCategoryAndTechnologies ==
    (listing.view = "projects_api" /\ listing.resp.status = 200) =>
        \A i \in 1..Len(listing.resp.items) :
            LET item == listing.resp.items[i]
                p == ProjectOf(item)
                linked == {k \in skills : k.id \in p.technologies}
            IN  /\ p.category = None => item.category = None
                /\ p.category # None =>
                      \E c \in categories :
                          /\ p.category = Some(c.id)
                          /\ item.category = Some([name |-> c.name, color |-> c.color])
                /\ {item.technologies[j] : j \in 1..Len(item.technologies)} =
                      {k.name : k \in linked}
                /\ Len(item.technologies) = Cardinality(linked)

\* a Project whose category was deleted is listed without a category and with a
\* linked Skill that is not featured
C21_Witness ==
    /\ listing.view = "projects_api"
    /\ listing.resp.status = 200
    /\ categoryOp.op = "delete"
    /\ \E i \in 1..Len(listing.resp.items), k \in skills :
          /\ ~k.is_featured
          /\ k.id \in ProjectOf(listing.resp.items[i]).technologies
          /\ listing.resp.items[i].category = None
          /\ listing.resp.items[i].technologies = <<k.name>>

----------------------------------------------------------------------------
(* Contact intake, method and notification: C24, C26 *)

\* C24: a request to the contact endpoint whose method is not POST is answered
\* HTTP 405, stores no ContactMessage and calls send_mail for none.
C24_NonPostRefused ==
    /\ [][(pc = "idle" /\ pc' # "idle" /\ req.method # "POST") =>
            (/\ response'.status = 405
             /\ pc' = "done"
             /\ messages' = messages
             /\ mailCalls' = mailCalls
             /\ mailOutcome' = "none")]_vars
    /\ [](req.method # "POST" =>
            (messages = <<>> /\ mailCalls = <<>> /\ pc \in {"idle", "done"}))

\* a GET whose body would have been stored had it been posted was refused
C24_Witness ==
    /\ req.method = "GET"
    /\ ValidSubmission([req EXCEPT !.method = "POST"])
    /\ pc = "done"
    /\ response.status = 405
    /\ messages = <<>>
    /\ mailCalls = <<>>

\* C26: send_mail is called at most once for a ContactMessage, only for a message
\* that is stored, only as part of accepting a valid POST, and never again once a
\* call has failed.
C26_MailOncePerMessage ==
    /\ [](\A i, j \in 1..Len(mailCalls) : mailCalls[i] = mailCalls[j] => i = j)
    /\ [](\A i \in 1..Len(mailCalls) :
            \E k \in 1..Len(messages) : messages[k].id = mailCalls[i])
    /\ [][mailCalls' # mailCalls =>
            (/\ pc = "idle"
             /\ ValidSubmission(req)
             /\ Len(mailCalls') = Len(mailCalls) + 1
             /\ Len(messages') = Len(messages) + 1
             /\ mailCalls'[Len(mailCalls')] = messages'[Len(messages')].id)]_vars

\* two submissions, one send_mail call each, the second of which failed
C26_Witness ==
    /\ pc = "done"
    /\ mailOutcome = "error"
    /\ Len(messages) = 2
    /\ mailCalls = <<1, 2>>

----------------------------------------------------------------------------
(* Unexpected failures: C25 *)

\* C25: the response to a request that failed unexpectedly is the same whatever the
\* text of the exception is.
C25_FailureHidesDetail ==
    listing.view = "failure" => listing.bodies[1] = listing.bodies[2]

----------------------------------------------------------------------------
(* The pages of a listing: C28 *)

\* the sequences that hold every Skill the request asks for once, and nothing
\* else, in the order of the listing
WantedSkillLists ==
    LET wanted == {r \in skills :
                      /\ r.is_featured
                      /\ Given(listing.category, "") => r.category = listing.category.v}
        n == Cardinality(wanted)
    IN  {l \in [1..n -> wanted] :
            /\ \A r \in wanted : \E i \in 1..n : l[i] = r
            /\ \A i, j \in 1..n : i < j => SkillComesFirst(l[i], l[j])}

\* what the view of the listing answers, on the store as it is, to the request of
\* the listing with page number n in place of its own
PageServed(n) ==
    IF listing.view = "skills_api"
    THEN Paginate(SkillsApiQuery(skills, listing.category), IntParam(n), listing.size)
    ELSE Paginate(ProjectsApiQuery(projects, categories, listing.category, listing.status),
                  IntParam(n), listing.size)

\* the ids of the items of pages 1..n, in page order
RECURSIVE PagesJoined(_)
PagesJoined(n) == IF n = 0 THEN <<>> ELSE PagesJoined(n - 1) \o IdsOf(PageServed(n).items)

\* C28: with a positive page_size, pages 1..total_pages of skills_api (and of
\* projects_api) joined in page order are the whole filtered, ordered list, each
\* item once; total_items is the length of that list, every page but the last holds
\* page_size items, has_next holds exactly when page < total_pages and has_previous
\* exactly when page > 1.
C28_PagesPartition ==
    (listing.view \in ApiViews /\ listing.size.t = "int" /\ listing.size.v >= 1) =>
        /\ listing.resp.status = 200
        /\ LET total == listing.resp.pagination.total_pages
               served == listing.resp.pagination.page
           IN  \E l \in (IF listing.view = "skills_api" THEN WantedSkillLists
                         ELSE WantedLists) :
                   /\ served \in 1..total
                   /\ IdsOf(listing.resp.items) = IdsOf(PageServed(served).items)
                   /\ listing.resp.pagination = PageServed(served).pagination
                   /\ PagesJoined(total) = IdsOf(l)
                   /\ \A n \in 1..total :
                         LET r == PageServed(n)
                         IN  /\ r.status = 200
                             /\ r.pagination.page = n
                             /\ r.pagination.total_pages = total
                             /\ r.pagination.total_items = Len(l)
                             /\ n < total => Len(r.items) = listing.size.v
                             /\ r.pagination.has_next <=> n < total
                             /\ r.pagination.has_previous <=> n > 1

\* two of three featured Skills are tools; page 2 of size 1 holds the second of them
C28_Witness ==
    /\ listing.view = "skills_api"
    /\ listing.category = Text("tool")
    /\ listing.size = IntParam(1)
    /\ listing.page = IntParam(2)
    /\ Cardinality({r \in skills : r.is_featured}) = 3
    /\ listing.resp.status = 200
    /\ listing.resp.pagination =
          [page |-> 2, total_pages |-> 2, total_items |-> 2,
           has_next |-> FALSE, has_previous |-> TRUE]
    /\ Len(listing.resp.items) = 1
    /\ IdsOf(PageServed(1).items) # IdsOf(listing.resp.items)

----------------------------------------------------------------------------
(* Cache entries end by their time to live alone: C22 *)

\* the keys under which cache_page keeps a response
ResponseKeys == {"home", "skills_api", "projects_api"}

\* a step that serves a request for the response kept under key k
ReadOf(k) == listing' # listing /\ listing'.view = "cached" /\ listing'.key = k

\* the Settings row as stored after the step
StoredSettings == CHOOSE r \in settingsRows' : r.pk = SingletonPk

\* a request writes no Skill, ProjectCategory or Project
CatalogKept == UNCHANGED <<skills, categories, projects>>

\* the response computed from the rows stored at the request, home with Settings ps
FreshHome(ps) == HomeContext(ps, skills, categories, projects)

FreshApi(k) == IF k = "skills_api" THEN SkillsApiBody ELSE ProjectsApiBody

\* a step that is no request changes no entry
WritesKeepEntries == [][listing' = listing => cache' = cache]_vars

\* a request within the time to live of its entry is answered with the entry
LiveEntryServed ==
    [][\A k \in ResponseKeys :
          ReadOf(k) /\ Live(cache[k], clock)
              => /\ listing'.resp = Val(cache[k].value)
                 /\ cache' = cache]_vars

\* the first request for skills_api or projects_api after its entry has ended is
\* answered from the rows stored then
ExpiredApiRecomputed ==
    [][\A k \in ResponseKeys \ {"home"} :
          ReadOf(k) /\ ~Live(cache[k], clock)
              => CatalogKept /\ listing'.resp = FreshApi(k)]_vars

\* the statement with home answered from the stored Settings row once its entry ended
C22_ExpiredReadIsCurrent ==
    [][ReadOf("home") /\ ~Live(cache.home, clock)
          => CatalogKept /\ listing'.resp = FreshHome(StoredSettings)]_vars

\* C22: no write changes a cache entry; a request within the time to live of its
\* entry returns the entry; the first request after the entry of skills_api or
\* projects_api ended returns the rows stored then; the first request after the entry
\* of home ended returns the Skills and Projects stored then, with the Settings of the
\* "portfolio_settings" entry while that entry is live and the stored Settings row,
\* written to that entry, once it ended
C22_TtlOnly ==
    /\ WritesKeepEntries
    /\ LiveEntryServed
    /\ ExpiredApiRecomputed
    /\ [][ReadOf("home") /\ ~Live(cache.home, clock)
            => /\ CatalogKept
               /\ IF Live(cache.portfolio_settings, clock)
                  THEN /\ listing'.resp = FreshHome(Val(cache.portfolio_settings.value))
                       /\ cache'.portfolio_settings = cache.portfolio_settings
                  ELSE /\ listing'.resp = FreshHome(StoredSettings)
                       /\ cache'.portfolio_settings.value = Some(StoredSettings)]_vars

\* the entry of home ended and home was answered again, with the Skill stored since
\* and with Settings that are no longer the stored ones
C22_Witness ==
    /\ listing.view = "cached"
    /\ listing.key = "home"
    /\ ~listing.hit
    /\ listing.at >= CacheTimeoutMedium
    /\ skills # {}
    /\ \E r \in settingsRows : listing.resp.settings # r

----------------------------------------------------------------------------
(* get_settings() called side by side: C27 *)

\* C27: however the lookup and insert steps of concurrent get_settings() calls
\* interleave, every call returns a record with pk 1 and raises nothing, and once a
\* call has returned exactly one Settings row is stored
C27_ConcurrentGetSettings ==
    /\ Cardinality(settingsRows) <= 1
    /\ \A i \in DOMAIN callers :
          callers[i].pc = "done"
              => /\ callers[i].error = "none"
                 /\ callers[i].ret.pk = SingletonPk
                 /\ Cardinality(settingsRows) = 1

\* two calls both found no row; one inserted it, the other met the taken key and
\* returned the row after looking again
C27_Witness ==
    /\ Len(callers) >= 2
    /\ callers[1].pc = "done" /\ callers[1].missed
    /\ callers[2].pc = "done" /\ callers[2].missed
    /\ \E i \in 1..2 : callers[i].conflicted
    /\ Cardinality(settingsRows) = 1

----------------------------------------------------------------------------
(* The command run again: C23 *)

\* a step that is a run of the command
SeedStep == seedOp'.n = seedOp.n + 1

SeedNames == {SkillsData[i].name : i \in DOMAIN SkillsData}
SeedCategoryNames == {CategoriesData[i].name : i \in DOMAIN CategoriesData}
SeedTitles == {ProjectsData[i].title : i \in DOMAIN ProjectsData}

\* C23: a run without force that follows a successful run creates no row: the
\* numbers of Skill, ProjectCategory, Project and Settings rows stay as they were, and
\* each name of skills_data, each name of categories_data and each title of
\* projects_data is held by exactly one row
C23_RerunCreatesNothing ==
    [][SeedStep /\ seedOp.seeded /\ ~seedOp'.force
          => /\ Cardinality(skills') = Cardinality(skills)
             /\ Cardinality(categories') = Cardinality(categories)
             /\ Cardinality(projects') = Cardinality(projects)
             /\ Cardinality(settingsRows') = Cardinality(settingsRows)
             /\ \A n \in SeedNames : Cardinality({r \in skills' : r.name = n}) = 1
             /\ \A n \in SeedCategoryNames :
                   Cardinality({r \in categories' : r.name = n}) = 1
             /\ \A t \in SeedTitles :
                   Cardinality({r \in projects' : r.title = t}) = 1]_vars

\* the command ran again, the last time without force, on a store that held a
\* Project of its own before the first run
C23_Witness ==
    /\ seedOp.n = MaxRuns
    /\ seedOp.seeded
    /\ ~seedOp.force
    /\ seedOp.error = "none"
    /\ Cardinality(skills) = Len(SkillsData)
    /\ Cardinality(projects) = Len(ProjectsData) + 1

----------------------------------------------------------------------------
(* What a run rewrites: C29 *)

\* the ids of the Skills of rows that hold one of these names
IdsNamed(rows, names) == {r.id : r \in {k \in rows : k.name \in names}}

\* C29: a run without force changes no field of a stored Skill, ProjectCategory or
\* Settings row, and of a stored Project at most the technologies, and those of a
\* Project with a title of projects_data only; after a run that completed, with or
\* without force, each Project with such a title is linked to exactly the Skills
\* the command names for it
C29_RerunKeepsFields ==
    /\ [][SeedStep /\ ~seedOp'.force
            => /\ skills \subseteq skills'
               /\ categories \subseteq categories'
               /\ settingsRows \subseteq settingsRows'
               /\ \A p \in projects :
                     \/ p \in projects'
                     \/ /\ p.title \in SeedTitles
                        /\ \E q \in projects' :
                              [p EXCEPT !.technologies = q.technologies] = q]_vars
    /\ [][SeedStep /\ seedOp'.error = "none"
            => \A i \in DOMAIN TechnologiesData :
                  \A q \in projects' :
                      q.title = TechnologiesData[i].title
                          => q.technologies = IdsNamed(skills', TechnologiesData[i].names)]_vars

\* after the administrator lowered the level of "Python", deleted "CSS" and cleared
\* the technologies of "Gestor de Tareas", a run without force completed: the level
\* is as edited and the Project is linked to five Skills again
C29_Witness ==
    /\ seedOp.n = MaxRuns
    /\ ~seedOp.force
    /\ seedOp.error = "none"
    /\ skillOp.op = "delete"
    /\ projectOp.op = "set_technologies"
    /\ \E r \in skills : r.name = "Python" /\ r.proficiency_level = MinProficiency
    /\ \E q \in projects :
          q.title = "Gestor de Tareas" /\ Cardinality(q.technologies) = 5

----------------------------------------------------------------------------
(* Runs side by side: C30 *)

\* rows written by the runs, committed or not, that hold the same seeded name or title
Doubled ==
    \/ \E n \in SeedNames :
          Cardinality({r \in AllRows(txns, "skill") : r.name = n}) > 1
    \/ \E n \in SeedCategoryNames :
          Cardinality({r \in AllRows(txns, "category") : r.name = n}) > 1
    \/ \E t \in SeedTitles :
          Cardinality({r \in AllRows(txns, "project") : r.title = t}) > 1

\* C30: while runs go side by side on an empty store no seeded name or title is
\* written twice, and when they have ended each name of skills_data, each name of
\* categories_data and each title of projects_data is held by exactly one row, a run
\* of the command on the store completes, and the run made afterwards has completed
C30_ConcurrentSeed ==
    /\ ~Doubled
    /\ Ended
        => /\ \A n \in SeedNames : Cardinality({r \in skills : r.name = n}) = 1
           /\ \A n \in SeedCategoryNames :
                 Cardinality({r \in categories : r.name = n}) = 1
           /\ \A t \in SeedTitles : Cardinality({r \in projects : r.title = t}) = 1
           /\ Handle(Database(skills, categories, projects, settingsRows), FALSE).error
                 = "none"
           /\ seedOp.error = "none"

\* two runs began before either had written; one waited for the other at its first
\* INSERT, then both committed and the command was run once more
C30_Witness ==
    /\ Len(txns) >= 2
    /\ txns[1].status = "committed"
    /\ txns[2].status = "committed"
    /\ \E i \in 1..2 : txns[i].waited
    /\ seedOp.n > 0

====
